---- MODULE Spec2Model ----
(***************************************************************************)
(* Authentication and authorization gateway of the backend:               *)
(*   authentication/keycloak_auth.py   JWKS cache and token validator     *)
(*   authentication/admin_keycloak.py  PKCE login flow for Django Admin   *)
(*   authentication/middleware.py      role authorizer for /api/*         *)
(*   authentication/user_sync.py       user provisioner                   *)
(*   authentication/logging_middleware.py, request_context.py              *)
(*                                      identity for the access log       *)
(*                                                                         *)
(* Python strings that the code inspects structurally (rstrip, endswith,  *)
(* startswith, strip, split) are sequences of pieces; strings that are    *)
(* only compared are TLA+ strings.                                         *)
(***************************************************************************)
EXTENDS Integers, Sequences, FiniteSets, TLC

VARIABLES
    config,     \* KeycloakConfig of the process (settings, fixed at start-up)
    now,        \* time.time(), in seconds
    ticks,      \* number of clock advances so far
    cache,      \* the module-level _jwks_cache: [jwks, fetched_at]
    threads,    \* each request thread: the call it serves and the wait it is at
    supplied,   \* the next parameter of the login() that stored the current state
    session,    \* the browser's Django session (request.session + auth user)
    users,      \* the auth_user table: username -> record (absent: NoRecord)
    logins,     \* number of admin_keycloak_login calls that generated a state
    consumed,   \* history: state values that passed the state check of a completed callback
    rejected,   \* history: a callback was rejected since the last login()
    pipeline,   \* the order of the two middlewares in settings.MIDDLEWARE
    log_username, \* request_context._local.username of the worker thread
    calls,      \* number of calls begun so far of the operation whose number is
                \* bounded: upsert_user_from_keycloak called directly, the callback
    last        \* observation of the last operation: its inputs and its outcome

vars == <<config, now, ticks, cache, threads, supplied, session, users, logins, consumed, rejected,
          pipeline, log_username, calls, last>>

----------------------------------------------------------------------------
(* Bounds of the model *)

MaxTicks == 3
MaxLogins == 2
MaxElapse == 2
MaxCalls == 3
MaxCallbacks == 2

----------------------------------------------------------------------------
(* Strings as sequences of pieces *)

Slash == "/"

\* Python None where a string (sequence) is expected
NoStr == <<"<None>">>

\* str.rstrip("/")
RECURSIVE RStripSlash(_)
RStripSlash(s) ==
    IF Len(s) > 0 /\ s[Len(s)] = Slash
    THEN RStripSlash(SubSeq(s, 1, Len(s) - 1))
    ELSE s

\* str.endswith(suffix)
EndsWith(s, suffix) ==
    /\ Len(s) >= Len(suffix)
    /\ SubSeq(s, Len(s) - Len(suffix) + 1, Len(s)) = suffix

\* str.startswith(prefix)
StartsWith(s, prefix) ==
    /\ Len(s) >= Len(prefix)
    /\ SubSeq(s, 1, Len(prefix)) = prefix

\* Python truthiness of an Optional[str]
Truthy(s) == s # NoStr /\ s # <<>>

----------------------------------------------------------------------------
(* KeycloakConfig *)

AuthSuffix == <<Slash, "auth">>
RealmPath(realm) == <<Slash, "realms", Slash, realm>>
CertsPath == <<Slash, "protocol", Slash, "openid-connect", Slash, "certs">>

\* KeycloakConfig.issuer
issuer(cfg) == RStripSlash(cfg.url) \o RealmPath(cfg.realm)

\* KeycloakConfig.jwks_url
jwks_url(cfg) == RStripSlash(cfg.url) \o RealmPath(cfg.realm) \o CertsPath

\* _alt_base_url
alt_base_url(url) ==
    LET base == RStripSlash(url)
    IN  IF EndsWith(base, AuthSuffix)
        THEN SubSeq(base, 1, Len(base) - Len(AuthSuffix))
        ELSE NoStr

\* _alt_issuer
alt_issuer(cfg) ==
    LET alt_base == alt_base_url(cfg.url)
    IN  IF ~Truthy(alt_base) THEN NoStr
        ELSE alt_base \o RealmPath(cfg.realm)

\* _alt_jwks_url
alt_jwks_url(cfg) ==
    LET alt_base == alt_base_url(cfg.url)
    IN  IF ~Truthy(alt_base) THEN NoStr
        ELSE alt_base \o RealmPath(cfg.realm) \o CertsPath

\* clock_skew_seconds of the configuration
clock_skew_seconds == 60

\* The values of KEYCLOAK_URL the model starts from
ConfigUrls ==
    { <<"https://sso", Slash, "auth">>,
      <<"https://sso", Slash, "auth", Slash>>,
      <<"https://sso">>,
      <<"https://sso", Slash>>,
      <<Slash, "auth">> }

\* _build_config / KeycloakRequiredMiddleware.__init__
build_config(url) ==
    [ url |-> url, realm |-> "pmpa", client_id |-> "geoteste", required_role |-> "mcp" ]

----------------------------------------------------------------------------
(* The identity provider's JWKS documents and JwksCache *)

\* default of JwksCache.ttl_seconds
ttl_seconds == 3600

\* JwksCache.jwks is None
NoJwks == [ src |-> <<>>, shape |-> "None", keys |-> <<>> ]

\* _jwks_cache = JwksCache()
EmptyCache == [ jwks |-> NoJwks, fetched_at |-> 0 ]

\* The keys published under the configured path and under the legacy-stripped
\* path. "kx" carries key material from which no RSA key can be built.
PrimaryKeys == << [ kid |-> "k1", n |-> "m1" ], [ kid |-> "kx", n |-> "malformed" ] >>
AltKeys == << [ kid |-> "k2", n |-> "m2" ] >>

ServedKeys(cfg, url) ==
    IF url = jwks_url(cfg) THEN PrimaryKeys
    ELSE IF url = alt_jwks_url(cfg) THEN AltKeys
    ELSE <<>>

\* The outcomes of requests.get(url) + raise_for_status() + json():
\*   "ok"      the JWKS document of that url
\*   "nokeys"  a JSON object whose "keys" is not a list
\*   "fail"    connection error, timeout or non-success status (raises)
NetOutcomes == { "ok", "nokeys", "fail" }

\* resp.json() of a fetch of url with outcome net
FetchedDoc(cfg, url, net) ==
    IF net = "ok"
    THEN [ src |-> url, shape |-> "ok", keys |-> ServedKeys(cfg, url) ]
    ELSE [ src |-> url, shape |-> "nokeys", keys |-> <<>> ]

\* CacheFresh with the age compared by <= instead of <
CacheFresh_InclusiveTtl(c, t) == c.jwks # NoJwks /\ (t - c.fetched_at) <= ttl_seconds

\* the cache-hit test of JwksCache.get
CacheFresh(c, t) == c.jwks # NoJwks /\ (t - c.fetched_at) < ttl_seconds

\* A request thread. pc is its position:
\*   "out"     serving no call
\*   "start"   handed a call it has not begun
\*   "call"    about to call _jwks_cache.get(url)
\*   "miss"    inside get, the cache test failed, waiting in requests.get
\*   "stored"  inside get, self.jwks assigned, self.fetched_at not yet
\*   "return"  get is returning self.jwks, or raising
\*   "post"    inside the login callback, waiting in requests.post
\*   "get_or_create", "save"  inside upsert_user_from_keycloak, waiting for
\*             the database to execute that statement
\* call: the operation it serves and its inputs; url: the argument of get;
\* t: the clock get read; raised: requests raised; stage: 1 for the get of the
\* primary url of a validation, 2 for the alternate one; fetched, net: the urls
\* requested over the network during the call and the answers, in order;
\* v: what validate_keycloak_jwt returned to the caller of the provisioner;
\* up: the locals of upsert_user_from_keycloak (the claims before its first
\* statement; username, created, the user object and changed_fields after it).
NotInGet ==
    [ pc |-> "out", call |-> [ op |-> "none" ], url |-> NoStr, t |-> 0, raised |-> FALSE,
      stage |-> 0, fetched |-> <<>>, net |-> <<>>, v |-> [ none |-> TRUE ],
      up |-> [ none |-> TRUE ] ]

\* What a step of a handler leaves: done with the outcome r, the thread free
\* again, or the thread th at its next wait
Done(r) == [ done |-> TRUE, r |-> r, thread |-> NotInGet ]
GoesOn(th) == [ done |-> FALSE, r |-> [ none |-> TRUE ], thread |-> th ]

\* lines 37-38 of JwksCache.get(url): read the clock, test the cached set
GetEnter(th, url, c, t) ==
    [ th EXCEPT !.pc = IF CacheFresh(c, t) THEN "return" ELSE "miss",
                !.url = url, !.t = t, !.raised = FALSE ]

\* GetAnswered returning the set the cache still holds when the fetch fails
GetAnswered_StaleOnError(cfg, th, c, net) ==
    LET asked == [ th EXCEPT !.fetched = Append(@, th.url), !.net = Append(@, net) ]
    IN  IF net = "fail"
        THEN [ thread |-> [ asked EXCEPT !.pc = "return", !.raised = (c.jwks = NoJwks) ],
               cache |-> c ]
        ELSE [ thread |-> [ asked EXCEPT !.pc = "stored" ],
               cache |-> [ c EXCEPT !.jwks = FetchedDoc(cfg, th.url, net) ] ]

\* lines 41-43: requests.get(url) has answered net; raise_for_status();
\* self.jwks = resp.json(). The thread and the cache afterwards.
GetAnswered(cfg, th, c, net) ==
    LET asked == [ th EXCEPT !.fetched = Append(@, th.url), !.net = Append(@, net) ]
    IN  IF net = "fail"
        THEN [ thread |-> [ asked EXCEPT !.pc = "return", !.raised = TRUE ], cache |-> c ]
        ELSE [ thread |-> [ asked EXCEPT !.pc = "stored" ],
               cache |-> [ c EXCEPT !.jwks = FetchedDoc(cfg, th.url, net) ] ]

\* line 44: self.fetched_at = now, the clock read at line 37
GetStamped(th, c) ==
    [ thread |-> [ th EXCEPT !.pc = "return" ], cache |-> [ c EXCEPT !.fetched_at = th.t ] ]

\* lines 39 and 45: return self.jwks (or the exception of requests leaves get)
GetResult(th, c) ==
    [ raised |-> th.raised, doc |-> IF th.raised THEN NoJwks ELSE c.jwks,
      fetched |-> th.fetched ]

----------------------------------------------------------------------------
(* Tokens *)

NoToken == [ none |-> TRUE ]
NoPayload == [ none |-> TRUE ]
NoJwk == [ kid |-> "", n |-> "" ]

\* An absent claim, a claim of an unexpected JSON type
Absent == [ t |-> "absent", v |-> {} ]
Other == [ t |-> "other", v |-> {} ]
Str(s) == [ t |-> "str", v |-> {s} ]
List(S) == [ t |-> "list", v |-> S ]

\* realm_access / resource_access[client_id]: a JSON object with a "roles" member
Dict(roles) == [ t |-> "dict", roles |-> roles ]
AbsentDict == [ t |-> "absent", roles |-> Absent ]
OtherDict == [ t |-> "other", roles |-> Absent ]

\* str.lower() on the authorization schemes the model sends
Lower(w) ==
    CASE w = "Bearer" -> "bearer"
      [] w = "BEARER" -> "bearer"
      [] w = "Basic" -> "basic"
      [] OTHER -> w

\* _extract_bearer_token: the header is its whitespace-separated words
extract_bearer_token(auth_header) ==
    IF auth_header.words = <<>> THEN NoToken
    ELSE IF Len(auth_header.words) # 2 THEN NoToken
    ELSE IF Lower(auth_header.words[1]) # "bearer" THEN NoToken
    ELSE auth_header.token

\* _find_jwk: the first key of the document with the token's kid
RECURSIVE FindFrom(_, _, _)
FindFrom(keys, kid, i) ==
    IF i > Len(keys) THEN NoJwk
    ELSE IF keys[i].kid = kid THEN keys[i]
    ELSE FindFrom(keys, kid, i + 1)

\* find_jwk falling back to the first key of the document
find_jwk_FirstKey(jwks, kid) ==
    IF FindFrom(jwks.keys, kid, 1) = NoJwk /\ Len(jwks.keys) > 0 THEN jwks.keys[1]
    ELSE FindFrom(jwks.keys, kid, 1)

find_jwk(jwks, kid) == FindFrom(jwks.keys, kid, 1)

\* leeway passed to jwt.decode
Leeway == IF clock_skew_seconds > 0 THEN clock_skew_seconds ELSE 0

\* decode_with_issuer with the issuer compared before the time claims
decode_with_issuer_IssuerFirst(token, jwk, expected_iss, t) ==
    LET p == token.payload
    IN  IF token.signed # jwk.n THEN "InvalidSignatureError"
        ELSE IF p.iss = NoStr THEN "MissingRequiredClaimError"
        ELSE IF p.iss # expected_iss THEN "InvalidIssuerError"
        ELSE IF p.nbf # {} /\ (\E v \in p.nbf : v > t + Leeway) THEN "ImmatureSignatureError"
        ELSE IF p.exp # {} /\ (\E v \in p.exp : v <= t - Leeway) THEN "ExpiredSignatureError"
        ELSE "ok"

\* jwt.decode(token, key, algorithms=["RS256"], issuer=..., leeway=...) with
\* verify_aud and verify_iat off: signature, then nbf, then exp, then iss.
decode_with_issuer(token, jwk, expected_iss, t) ==
    LET p == token.payload
    IN  IF token.signed # jwk.n THEN "InvalidSignatureError"
        ELSE IF p.nbf # {} /\ (\E v \in p.nbf : v > t + Leeway) THEN "ImmatureSignatureError"
        ELSE IF p.exp # {} /\ (\E v \in p.exp : v <= t - Leeway) THEN "ExpiredSignatureError"
        ELSE IF p.iss = NoStr THEN "MissingRequiredClaimError"
        ELSE IF p.iss # expected_iss THEN "InvalidIssuerError"
        ELSE "ok"

\* _audience_ok without the azp fallback
audience_ok_NoAzp(payload, client_id) ==
    LET aud == payload.aud
    IN  \/ aud.t = "str" /\ aud.v = {client_id}
        \/ aud.t = "list" /\ client_id \in aud.v

\* _audience_ok
audience_ok(payload, client_id) ==
    LET aud == payload.aud
        azp == payload.azp
    IN  \/ aud.t = "str" /\ aud.v = {client_id}
        \/ aud.t = "list" /\ client_id \in aud.v
        \/ azp.t = "str" /\ azp.v = {client_id}

\* _token_has_role: "True", "False", or "AttributeError" when realm_access is
\* present and is no JSON object (payload.get("realm_access", {}).get fails)
token_has_role(payload, client_id, required_role) ==
    LET ra == payload.realm_access
        res == payload.resource_access
    IN  IF ra.t = "other" THEN "AttributeError"
        ELSE IF ra.t = "dict" /\ ra.roles.t = "list" /\ required_role \in ra.roles.v
        THEN "True"
        ELSE IF /\ res.t = "dict"
                /\ res.client.t = "dict"
                /\ res.client.roles.t = "list"
                /\ required_role \in res.client.roles.v
        THEN "True"
        ELSE "False"

----------------------------------------------------------------------------
(* validate_keycloak_jwt *)

\* What a call of validate_keycloak_jwt produces:
\*   kind      "ok" (returns payload, has_role), "TokenError", or "Exception"
\*             (an exception that is no TokenError leaves the function)
\*   reason    the TokenError's message, or the exception's type
\*   cache     _jwks_cache afterwards
\*   fetched   the urls requested over the network, in order
\*   decodes   the outcomes of the calls of _decode_with_issuer, in order
VResult(kind, reason, payload, has_role, c, fetched, decodes) ==
    [ kind |-> kind, reason |-> reason, payload |-> payload, has_role |-> has_role,
      cache |-> c, fetched |-> fetched, decodes |-> decodes ]

VTokenError(reason, c, fetched, decodes) ==
    VResult("TokenError", reason, NoPayload, FALSE, c, fetched, decodes)

VException(type, c, fetched, decodes) ==
    VResult("Exception", type, NoPayload, FALSE, c, fetched, decodes)

\* lines 201-205: the audience check and the role extraction
ValidateClaims(cfg, payload, c, fetched, decodes) ==
    IF ~audience_ok(payload, cfg.client_id)
    THEN VTokenError("Invalid audience", c, fetched, decodes)
    ELSE LET has_role == token_has_role(payload, cfg.client_id, cfg.required_role)
         IN  IF has_role = "AttributeError"
             THEN VException("AttributeError", c, fetched, decodes)
             ELSE VResult("ok", "", payload, has_role = "True", c, fetched, decodes)

\* ValidateWithKey without the retry against the alternate issuer
ValidateWithKey_NoRetry(cfg, token, jwk, c, fetched, t) ==
    IF jwk.n = "malformed"
    THEN VTokenError("Failed to build public key", c, fetched, <<>>)
    ELSE
    LET d1 == decode_with_issuer(token, jwk, issuer(cfg), t)
    IN  CASE d1 = "ok" ->
                ValidateClaims(cfg, token.payload, c, fetched, <<d1>>)
          [] d1 = "ExpiredSignatureError" ->
                VTokenError("Token expired", c, fetched, <<d1>>)
          [] d1 = "ImmatureSignatureError" ->
                VTokenError("Token not yet valid (nbf/iat)", c, fetched, <<d1>>)
          [] d1 = "InvalidSignatureError" ->
                VTokenError("Invalid token signature", c, fetched, <<d1>>)
          [] d1 = "InvalidIssuerError" ->
                VTokenError("Invalid issuer", c, fetched, <<d1>>)
          [] OTHER ->
                VTokenError("Token validation failed", c, fetched, <<d1>>)

\* lines 157-199: build the key, decode against the primary issuer, and
\* retry against the alternate issuer on InvalidIssuerError
ValidateWithKey(cfg, token, jwk, c, fetched, t) ==
    IF jwk.n = "malformed"
    THEN VTokenError("Failed to build public key", c, fetched, <<>>)
    ELSE
    LET d1 == decode_with_issuer(token, jwk, issuer(cfg), t)
    IN  CASE d1 = "ok" ->
                ValidateClaims(cfg, token.payload, c, fetched, <<d1>>)
          [] d1 = "ExpiredSignatureError" ->
                VTokenError("Token expired", c, fetched, <<d1>>)
          [] d1 = "ImmatureSignatureError" ->
                VTokenError("Token not yet valid (nbf/iat)", c, fetched, <<d1>>)
          [] d1 = "InvalidSignatureError" ->
                VTokenError("Invalid token signature", c, fetched, <<d1>>)
          [] d1 = "InvalidIssuerError" ->
                LET alt == alt_issuer(cfg)
                IN  IF Truthy(alt) /\ alt # issuer(cfg)
                    THEN LET d2 == decode_with_issuer(token, jwk, alt, t)
                         IN  IF d2 = "ok"
                             THEN ValidateClaims(cfg, token.payload, c, fetched, <<d1, d2>>)
                             ELSE VTokenError("Invalid issuer", c, fetched, <<d1, d2>>)
                    ELSE VTokenError("Invalid issuer", c, fetched, <<d1>>)
          [] OTHER ->
                VTokenError("Token validation failed", c, fetched, <<d1>>)

\* PreLookup without the test of the kid
PreLookup_NoKidCheck(auth_header) ==
    LET token == extract_bearer_token(auth_header)
    IN  IF token = NoToken THEN "Missing bearer token"
        ELSE IF ~token.wellformed THEN "Invalid token header"
        ELSE ""

\* lines 128-139: the TokenError raised before the key lookup, "" if none
PreLookup(auth_header) ==
    LET token == extract_bearer_token(auth_header)
    IN  IF token = NoToken THEN "Missing bearer token"
        ELSE IF ~token.wellformed THEN "Invalid token header"
        ELSE IF token.kid = "" THEN "Missing kid"
        ELSE ""

\* validate_keycloak_jwt(config, call.header) from its first line to the cache
\* test of _jwks_cache.get(config.jwks_url) (line 147), at time t on cache c
validate_keycloak_jwt(cfg, call, c, t) ==
    IF PreLookup(call.header) # ""
    THEN Done(VTokenError(PreLookup(call.header), c, <<>>, <<>>))
    ELSE GoesOn(GetEnter([ NotInGet EXCEPT !.call = call, !.stage = 1 ], jwks_url(cfg), c, t))

\* lines 147-205 from the return of a _jwks_cache.get on: look the kid up in the
\* returned key set; if it is absent from the primary one, call get for the
\* alternate url; with the key, decode and check the claims at time t.
ValidateLookup(cfg, th, c, t) ==
    LET token == extract_bearer_token(th.call.header)
        g == GetResult(th, c)
        alt_jwks == alt_jwks_url(cfg)
    IN  IF g.raised THEN Done(VException("RequestException", c, g.fetched, <<>>))
        ELSE IF g.doc.shape # "ok" THEN Done(VTokenError("Invalid JWKS", c, g.fetched, <<>>))
        ELSE
        LET jwk == find_jwk(g.doc, token.kid)
        IN  IF jwk # NoJwk
            THEN Done(ValidateWithKey(cfg, token, jwk, c, g.fetched, t))
            ELSE IF th.stage = 1 /\ Truthy(alt_jwks) /\ alt_jwks # jwks_url(cfg)
            THEN GoesOn([ th EXCEPT !.pc = "call", !.url = alt_jwks, !.stage = 2 ])
            ELSE Done(VTokenError("Signing key not found", c, g.fetched, <<>>))

----------------------------------------------------------------------------
(* User provisioner: user_sync.py *)

Space == " "

\* str.strip() and str.split() on sequences of pieces, Space being whitespace
RECURSIVE LStrip(_)
LStrip(s) == IF Len(s) > 0 /\ s[1] = Space THEN LStrip(Tail(s)) ELSE s

RECURSIVE RStrip(_)
RStrip(s) ==
    IF Len(s) > 0 /\ s[Len(s)] = Space THEN RStrip(SubSeq(s, 1, Len(s) - 1)) ELSE s

Strip(s) == RStrip(LStrip(s))

\* the first whitespace-free run of s (s not starting with whitespace)
RECURSIVE FirstWord(_)
FirstWord(s) ==
    IF Len(s) = 0 \/ s[1] = Space THEN <<>> ELSE <<s[1]>> \o FirstWord(Tail(s))

RECURSIVE Split(_)
Split(s) ==
    LET r == LStrip(s)
    IN  IF Len(r) = 0 THEN <<>>
        ELSE LET w == FirstWord(r)
             IN  <<w>> \o Split(SubSeq(r, Len(w) + 1, Len(r)))

\* " ".join(parts)
RECURSIVE Join(_)
Join(parts) ==
    IF Len(parts) = 0 THEN <<>>
    ELSE IF Len(parts) = 1 THEN parts[1]
    ELSE parts[1] \o <<Space>> \o Join(Tail(parts))

\* _split_name
split_name(full_name) ==
    LET parts == Split(Strip(full_name))
    IN  IF Len(parts) = 0 THEN << <<>>, <<>> >>
        ELSE IF Len(parts) = 1 THEN << parts[1], <<>> >>
        ELSE << parts[1], Join(Tail(parts)) >>

\* payload.get(key) if it is a str, else ""
StrOrEmpty(v) == IF v = NoStr THEN <<>> ELSE v

\* the username loop of upsert_user_from_keycloak (None: NoStr)
RECURSIVE FirstUsable(_)
FirstUsable(vals) ==
    IF Len(vals) = 0 THEN NoStr
    ELSE IF vals[1] # NoStr /\ Strip(vals[1]) # <<>> THEN Strip(vals[1])
    ELSE FirstUsable(Tail(vals))

\* the username loop trying email before username
derive_username_EmailFirst(payload) ==
    FirstUsable(<<payload.preferred_username, payload.email, payload.username, payload.sub>>)

derive_username(payload) ==
    FirstUsable(<<payload.preferred_username, payload.username, payload.email, payload.sub>>)

\* a row of auth_user; exists = FALSE: no row with that username
NoRecord ==
    [ exists |-> FALSE, email |-> <<>>, first_name |-> <<>>, last_name |-> <<>>,
      is_active |-> FALSE, is_staff |-> FALSE, is_superuser |-> FALSE,
      usable_password |-> FALSE, last_login |-> -1 ]

\* the usernames the table is indexed by
Usernames == { <<"alice">>, <<"bob">>, <<"carol">>, <<"bob@example.org">>, <<"sub-1">> }

\* the element of a singleton set
The(S) == CHOOSE x \in S : TRUE

\* lines 37-44: the attributes the claims give; the full name is split when
\* given_name and family_name are both missing
UserAttributes(payload) ==
    LET given == StrOrEmpty(payload.given_name)
        family == StrOrEmpty(payload.family_name)
        name == StrOrEmpty(payload.name)
        use_name == name # <<>> /\ given = <<>> /\ family = <<>>
    IN  [ email |-> StrOrEmpty(payload.email),
          first_name |-> IF use_name THEN split_name(name)[1] ELSE given,
          last_name |-> IF use_name THEN split_name(name)[2] ELSE family ]

\* UserGetOrCreate inserting the row with the staff flag set
UserGetOrCreate_StaffOnCreate(tbl, username, a) ==
    IF tbl[username].exists THEN tbl[username]
    ELSE [ exists |-> TRUE, email |-> a.email, first_name |-> a.first_name,
           last_name |-> a.last_name, is_active |-> TRUE, is_staff |-> TRUE,
           is_superuser |-> FALSE, usable_password |-> TRUE, last_login |-> -1 ]

\* lines 46-56, User.objects.get_or_create(username=..., defaults=...): the row
\* of that name, inserted with the defaults when there is none. The code opens
\* no transaction: the row is committed, with the password "" that Django takes
\* for a usable one and without last_login.
UserGetOrCreate(tbl, username, a) ==
    IF tbl[username].exists THEN tbl[username]
    ELSE [ exists |-> TRUE, email |-> a.email, first_name |-> a.first_name,
           last_name |-> a.last_name, is_active |-> TRUE, is_staff |-> FALSE,
           is_superuser |-> FALSE, usable_password |-> TRUE, last_login |-> -1 ]

\* UserChanges stamping last_login only when the call created the record
UserChanges_LoginOnCreate(row, created, a, t) ==
    [ row |-> row,
      obj |-> [ row EXCEPT
                  !.usable_password = IF created THEN FALSE ELSE @,
                  !.email = IF a.email # <<>> /\ @ # a.email THEN a.email ELSE @,
                  !.first_name = IF a.first_name # <<>> /\ @ # a.first_name
                                 THEN a.first_name ELSE @,
                  !.last_name = IF a.last_name # <<>> /\ @ # a.last_name
                                THEN a.last_name ELSE @,
                  !.last_login = IF created THEN t ELSE @ ],
      changed |-> (IF a.email # <<>> /\ row.email # a.email THEN { "email" } ELSE {})
                  \cup (IF a.first_name # <<>> /\ row.first_name # a.first_name
                        THEN { "first_name" } ELSE {})
                  \cup (IF a.last_name # <<>> /\ row.last_name # a.last_name
                        THEN { "last_name" } ELSE {})
                  \cup (IF created THEN { "last_login" } ELSE {}) ]

\* lines 58-80 on the object get_or_create returned (row), at time t:
\* set_unusable_password() when it was created, the attributes that the claims
\* give and that differ, last_login = timezone.now(). obj: the object
\* afterwards, not saved yet; changed: changed_fields.
UserChanges(row, created, a, t) ==
    [ row |-> row,
      obj |-> [ row EXCEPT
                  !.usable_password = IF created THEN FALSE ELSE @,
                  !.email = IF a.email # <<>> /\ @ # a.email THEN a.email ELSE @,
                  !.first_name = IF a.first_name # <<>> /\ @ # a.first_name
                                 THEN a.first_name ELSE @,
                  !.last_name = IF a.last_name # <<>> /\ @ # a.last_name
                                THEN a.last_name ELSE @,
                  !.last_login = t ],
      changed |-> (IF a.email # <<>> /\ row.email # a.email THEN { "email" } ELSE {})
                  \cup (IF a.first_name # <<>> /\ row.first_name # a.first_name
                        THEN { "first_name" } ELSE {})
                  \cup (IF a.last_name # <<>> /\ row.last_name # a.last_name
                        THEN { "last_name" } ELSE {})
                  \cup { "last_login" } ]

\* upsert_user_from_keycloak(payload) from its first line to line 80, the
\* database executing the statement of line 46 on tbl at time t. obj is the
\* User object the call holds afterwards and has not saved, changed its
\* changed_fields, users the table after the statement. username = NoStr: the
\* call returns None at line 35 and sends no statement.
upsert_user_from_keycloak(tbl, payload, t) ==
    LET username == derive_username(payload)
    IN  IF username = NoStr
        THEN [ username |-> NoStr, created |-> FALSE, obj |-> NoRecord, changed |-> {},
               users |-> tbl ]
        ELSE The({ [ username |-> username, created |-> ~tbl[username].exists,
                     obj |-> c.obj, changed |-> c.changed,
                     users |-> [ tbl EXCEPT ![username] = c.row ] ] :
                   c \in { UserChanges(row, ~tbl[username].exists,
                                       UserAttributes(payload), t) :
                           row \in { UserGetOrCreate(tbl, username,
                                                     UserAttributes(payload)) } } })

\* lines 84-87, the database executing the statement: save() writes every
\* column of the object the call created, save(update_fields=...) the changed
\* columns of an object it found
UserSave(tbl, up) ==
    [ tbl EXCEPT ![up.username] =
        IF up.created THEN up.obj
        ELSE [ @ EXCEPT !.email = IF "email" \in up.changed THEN up.obj.email ELSE @,
                        !.first_name = IF "first_name" \in up.changed
                                       THEN up.obj.first_name ELSE @,
                        !.last_name = IF "last_name" \in up.changed
                                      THEN up.obj.last_name ELSE @,
                        !.last_login = IF "last_login" \in up.changed
                                       THEN up.obj.last_login ELSE @ ] ]

\* The database executes the statement the thread th waits for inside
\* upsert_user_from_keycloak(th.up.payload): get_or_create (line 46), after
\* which the thread runs to its save, or the save (line 85 or 87), after which
\* the call returns obj. db = "error": the statement raises and the exception
\* leaves the call; the rows written by an earlier statement stay.
Statement(th, tbl, t, db) ==
    IF db = "error"
    THEN [ returned |-> TRUE, raised |-> TRUE, user |-> NoStr, obj |-> NoRecord,
           thread |-> th, users |-> tbl ]
    ELSE IF th.pc = "get_or_create"
    THEN The({ [ returned |-> FALSE, raised |-> FALSE, user |-> NoStr, obj |-> NoRecord,
                 thread |-> [ th EXCEPT !.pc = "save",
                                          !.up = [ username |-> g.username,
                                                   created |-> g.created,
                                                   obj |-> g.obj, changed |-> g.changed ] ],
                 users |-> g.users ] :
               g \in { upsert_user_from_keycloak(tbl, th.up.payload, t) } })
    ELSE [ returned |-> TRUE, raised |-> FALSE, user |-> th.up.username, obj |-> th.up.obj,
           thread |-> th, users |-> UserSave(tbl, th.up) ]

----------------------------------------------------------------------------
(* The browser's Django session *)

\* no session data, nobody logged in
EmptySession ==
    [ kc_admin_state |-> 0, kc_admin_nonce |-> 0, kc_admin_verifier |-> 0,
      kc_admin_next |-> NoStr, user |-> NoStr ]

\* django.contrib.auth.login(request, user): a session of another user is
\* flushed, otherwise the session data is kept
auth_login(sess, user) ==
    IF sess.user # NoStr /\ sess.user # user
    THEN [ EmptySession EXCEPT !.user = user ]
    ELSE [ sess EXCEPT !.user = user ]

\* django.contrib.auth.logout(request): session.flush()
auth_logout(sess) == EmptySession

\* request.user.is_authenticated and request.user.is_staff
IsStaffSession(sess, tbl) ==
    /\ sess.user # NoStr
    /\ tbl[sess.user].exists
    /\ tbl[sess.user].is_staff

----------------------------------------------------------------------------
(* The tokens and headers the environment presents *)

\* A token the identity provider issues for the configured client at time t:
\* signed with the key "k1", issuer the configured one, the role in realm_access.
GoodPayload(cfg, t) ==
    [ iss |-> issuer(cfg), exp |-> {t + 300}, nbf |-> {},
      aud |-> Str("account"), azp |-> Str(cfg.client_id),
      realm_access |-> Dict(List({cfg.required_role})),
      resource_access |-> [ t |-> "absent", client |-> AbsentDict ],
      preferred_username |-> <<"alice">>, username |-> NoStr, email |-> NoStr,
      sub |-> NoStr, given_name |-> NoStr, family_name |-> NoStr, name |-> NoStr ]

GoodToken(cfg, t) ==
    [ wellformed |-> TRUE, kid |-> "k1", signed |-> "m1", payload |-> GoodPayload(cfg, t) ]

\* Tokens that differ in the header and the signing key
KeyTokens(cfg, t) ==
    { [ GoodToken(cfg, t) EXCEPT !.kid = k, !.signed = m ] :
        k \in { "k1", "k2", "k9", "" }, m \in { "m1", "m2" } }
    \cup { [ GoodToken(cfg, t) EXCEPT !.wellformed = FALSE ] }

\* The issuers a token may name: the configured one, the legacy-stripped and
\* the legacy-prefixed form of it, another provider, none
IssValues(cfg) ==
    { issuer(cfg),
      <<"https://sso">> \o RealmPath(cfg.realm),
      <<"https://sso">> \o AuthSuffix \o RealmPath(cfg.realm),
      <<"https://evil">> \o RealmPath(cfg.realm),
      RealmPath(cfg.realm),
      NoStr }

AudValues(cfg) ==
    { Absent, Other, Str(cfg.client_id), Str("account"),
      List({cfg.client_id, "account"}), List({"account"}) }

AzpValues(cfg) == { Absent, Other, Str(cfg.client_id), Str("other-client") }

\* Tokens that differ in signature, time claims, issuer, audience and azp.
\* exp = t - Leeway is the latest expired value, nbf = t + Leeway the latest valid one.
ClaimTokens(cfg, t) ==
    { [ GoodToken(cfg, t) EXCEPT !.signed = m, !.payload.exp = e, !.payload.nbf = n,
                                 !.payload.iss = i, !.payload.aud = a, !.payload.azp = z ] :
        m \in { "m1", "forged" },
        e \in { {}, {t - Leeway}, {t - Leeway + 1} },
        n \in { {}, {t + Leeway}, {t + Leeway + 1} },
        i \in IssValues(cfg), a \in AudValues(cfg), z \in AzpValues(cfg) }

\* Authorization headers: one well-formed header per token, and the malformed ones
HeaderOf(tok) == [ words |-> <<"Bearer", "token">>, token |-> tok ]

Headers(cfg, t, toks) ==
    { HeaderOf(tok) : tok \in toks }
    \cup { [ words |-> w, token |-> GoodToken(cfg, t) ] :
             w \in { <<>>, <<"bearer", "token">>, <<"BEARER", "token">>,
                     <<"Basic", "token">>, <<"Bearer">>, <<"Bearer", "token", "x">> } }

----------------------------------------------------------------------------
(* Initial state *)

\* auth_user at start-up: alice was made staff in Django Admin, carol is a
\* user without the staff flag, bob is unknown
InitialUsers ==
    [ u \in Usernames |->
        CASE u = <<"alice">> ->
                [ NoRecord EXCEPT !.exists = TRUE, !.is_active = TRUE, !.is_staff = TRUE ]
          [] u = <<"carol">> ->
                [ NoRecord EXCEPT !.exists = TRUE, !.is_active = TRUE ]
          [] OTHER -> NoRecord ]

DefaultUrl == <<"https://sso", Slash, "auth">>

\* settings.MIDDLEWARE: RequestLogContextMiddleware reads request.keycloak "set
\* earlier by KeycloakRequiredMiddleware", which places it after that middleware
AuthThenLog == << "KeycloakRequiredMiddleware", "RequestLogContextMiddleware" >>
LogThenAuth == << "RequestLogContextMiddleware", "KeycloakRequiredMiddleware" >>

\* the request threads of the process
Threads == { 1, 2 }

\* the process after start-up with one of the urls and one of the middleware
\* orders configured
InitStore(urls, pipelines) ==
    /\ pipeline \in pipelines
    /\ supplied = NoStr
    /\ log_username = <<>>
    /\ config \in { build_config(u) : u \in urls }
    /\ now = 0
    /\ ticks = 0
    /\ cache = EmptyCache
    /\ users = InitialUsers
    /\ logins = 0
    /\ consumed = {}
    /\ rejected = FALSE
    /\ calls = 0

\* the same, no thread serving a call
InitWorker(urls, pipelines) ==
    /\ InitStore(urls, pipelines)
    /\ threads = [ i \in Threads |-> NotInGet ]

Init == InitWorker(ConfigUrls, { AuthThenLog }) /\ session = EmptySession /\ last = [ op |-> "init" ]

----------------------------------------------------------------------------
(* The clock, and the steps of a thread inside JwksCache.get *)

\* no answer is waiting to be read: last holds the call that returned last,
\* until Respond
Idle == last.op \in { "init", "idle" }

\* the last call has been answered; the next one starts from the stored state
Respond ==
    /\ last.op \in { "get", "validate", "api", "login", "callback", "logged", "upsert" }
    /\ last' = [ op |-> "idle",
                 prev |-> IF last.op = "upsert"
                          THEN [ payload |-> last.payload, raised |-> last.raised,
                                 alone |-> last.alone ]
                          ELSE [ none |-> TRUE ] ]
    /\ UNCHANGED <<supplied, threads, pipeline, calls, log_username, config, now, ticks, cache, session, users, logins, consumed, rejected>>

\* time passes between and during the calls of one thread
Tick ==
    /\ Idle
    /\ ticks < MaxTicks
    /\ \E d \in { 1, ttl_seconds - 1 } : now' = now + d
    /\ ticks' = ticks + 1
    /\ UNCHANGED <<supplied, threads, pipeline, calls, log_username, config, cache, session, users, logins, consumed, rejected, last>>

\* time passes while threads are inside their calls
Clock ==
    /\ Idle
    /\ ticks < MaxElapse
    /\ \E d \in { 1, ttl_seconds - 1 } : now' = now + d
    /\ ticks' = ticks + 1
    /\ UNCHANGED <<supplied, threads, pipeline, calls, log_username, config, cache, session, users,
                   logins, consumed, rejected, last>>

\* thread i calls _jwks_cache.get(url) directly: lines 37-38, it reads the
\* clock and tests the cached set
JwksGet(i) ==
    /\ Idle
    /\ threads[i].pc = "out"
    /\ \E url \in { jwks_url(config), alt_jwks_url(config) } \ { NoStr } :
          threads' = [ threads EXCEPT ![i] =
                         GetEnter([ NotInGet EXCEPT !.call = [ op |-> "get" ] ], url, cache, now) ]
    /\ UNCHANGED <<supplied, pipeline, calls, log_username, config, now, ticks, cache, session, users,
                   logins, consumed, rejected, last>>

\* lines 37-38 for the get a validation calls (lines 147 and 152)
GetCheck(i) ==
    /\ Idle
    /\ threads[i].pc = "call"
    /\ threads' = [ threads EXCEPT ![i] = GetEnter(threads[i], threads[i].url, cache, now) ]
    /\ UNCHANGED <<supplied, pipeline, calls, log_username, config, now, ticks, cache, session, users,
                   logins, consumed, rejected, last>>

\* lines 41-43: requests.get(url) answers, raise_for_status(), self.jwks = resp.json()
GetFetch(i) ==
    /\ Idle
    /\ threads[i].pc = "miss"
    /\ \E net \in NetOutcomes :
       \E r \in { GetAnswered(config, threads[i], cache, net) } :
          /\ threads' = [ threads EXCEPT ![i] = r.thread ]
          /\ cache' = r.cache
    /\ UNCHANGED <<supplied, pipeline, calls, log_username, config, now, ticks, session, users,
                   logins, consumed, rejected, last>>

\* line 44: self.fetched_at = now
GetStoreTime(i) ==
    /\ Idle
    /\ threads[i].pc = "stored"
    /\ \E r \in { GetStamped(threads[i], cache) } :
          /\ threads' = [ threads EXCEPT ![i] = r.thread ]
          /\ cache' = r.cache
    /\ UNCHANGED <<supplied, pipeline, calls, log_username, config, now, ticks, session, users,
                   logins, consumed, rejected, last>>

\* lines 39 and 45: the direct call returns self.jwks, or raises, to its caller.
\* net: the network's answer to its fetch, "none" if it made none.
GetReturn(i) ==
    /\ Idle
    /\ threads[i].pc = "return"
    /\ threads[i].call.op = "get"
    /\ threads' = [ threads EXCEPT ![i] = NotInGet ]
    /\ last' = [ op |-> "get", thread |-> i, url |-> threads[i].url, t |-> threads[i].t,
                 net |-> IF threads[i].net = <<>> THEN "none" ELSE threads[i].net[1],
                 g |-> GetResult(threads[i], cache) ]
    /\ UNCHANGED <<supplied, pipeline, calls, log_username, config, now, ticks, cache, session, users,
                   logins, consumed, rejected>>

\* The key cache over time, one call after the other
NextCache ==
    Tick \/ JwksGet(1) \/ GetFetch(1) \/ GetStoreTime(1) \/ GetReturn(1) \/ Respond
SpecCache == Init /\ [][NextCache]_vars

\* the process after start-up with the default url, its request threads idle
InitThreads == InitWorker({DefaultUrl}, { AuthThenLog }) /\ session = EmptySession /\ last = [ op |-> "init" ]

NextThreads ==
    \/ Clock
    \/ Respond
    \/ \E i \in Threads : JwksGet(i) \/ GetFetch(i) \/ GetStoreTime(i) \/ GetReturn(i)

SpecThreads == InitThreads /\ [][NextThreads]_vars

----------------------------------------------------------------------------
(* Direct calls of the validator *)

\* thread i calls validate_keycloak_jwt(config, h): the call fails before the
\* key lookup, or the thread is inside _jwks_cache.get(jwks_url)
ValidateHeader(i, h) ==
    /\ Idle
    /\ \E r \in { validate_keycloak_jwt(config, [ op |-> "validate", header |-> h ], cache, now) } :
          /\ threads' = [ threads EXCEPT ![i] = r.thread ]
          /\ last' = IF r.done
                     THEN [ op |-> "validate", thread |-> i, header |-> h, net |-> <<>>, v |-> r.r ]
                     ELSE last
    /\ UNCHANGED <<supplied, pipeline, calls, log_username, config, now, ticks, cache, session, users,
                   logins, consumed, rejected>>

\* a validation of a token that differs in header and key and does not expire
\* while the model runs
ValidateKeys(i) ==
    /\ threads[i].pc = "out"
    /\ LET horizon == (MaxElapse + 1) * ttl_seconds
       IN  \E h \in Headers(config, horizon, KeyTokens(config, horizon)) : ValidateHeader(i, h)

\* the validation of the header the thread was started with
ValidatePending(i) ==
    /\ threads[i].pc = "start"
    /\ threads[i].call.op = "validate"
    /\ ValidateHeader(i, threads[i].call.header)

\* a get of the validation of thread i returned or raised: the validation goes
\* on to the alternate url, or ends
ValidateResume(i) ==
    /\ Idle
    /\ threads[i].pc = "return"
    /\ threads[i].call.op = "validate"
    /\ \E r \in { ValidateLookup(config, threads[i], cache, now) } :
          /\ threads' = [ threads EXCEPT ![i] = r.thread ]
          /\ last' = IF r.done
                     THEN [ op |-> "validate", thread |-> i, header |-> threads[i].call.header,
                            net |-> threads[i].net, v |-> r.r ]
                     ELSE last
    /\ UNCHANGED <<supplied, pipeline, calls, log_username, config, now, ticks, cache, session, users,
                   logins, consumed, rejected>>

\* The key lookup of the validations of thread 1 over time, on the cache they
\* share with the direct gets of thread 2, the configuration having an
\* alternate JWKS url
NextKeys ==
    \/ Clock
    \/ Respond
    \/ ValidateKeys(1) \/ ValidateResume(1) \/ GetCheck(1)
    \/ JwksGet(2) \/ GetReturn(2)
    \/ \E i \in Threads : GetFetch(i) \/ GetStoreTime(i)
SpecKeys == InitThreads /\ [][NextKeys]_vars

\* The claim checks of the validator: one validation per header on a new process
InitClaims ==
    \E url \in ConfigUrls :
        /\ InitStore({url}, { AuthThenLog })
        /\ session = EmptySession
        /\ last = [ op |-> "init" ]
        /\ \E h \in Headers(build_config(url), 0, ClaimTokens(build_config(url), 0)) :
              threads = [ i \in Threads |->
                            IF i = 1
                            THEN [ NotInGet EXCEPT !.pc = "start",
                                       !.call = [ op |-> "validate", header |-> h ] ]
                            ELSE NotInGet ]

\* (the tokens name the key "k1" of the primary key set: no validation goes on
\* to the alternate url)
NextClaims ==
    ValidatePending(1) \/ ValidateResume(1) \/ GetFetch(1) \/ GetStoreTime(1)
SpecClaims == InitClaims /\ [][NextClaims]_vars

----------------------------------------------------------------------------
(* The order of the checks of validate_keycloak_jwt *)

\* Tokens that fail any combination of the checks: unreadable header, no kid,
\* unknown kid, key without usable material, forged signature, expired,
\* foreign issuer, foreign azp, no role, realm_access of an unexpected type
OrderTokens(cfg, t) ==
    { [ GoodToken(cfg, t) EXCEPT !.wellformed = w, !.kid = k, !.signed = m,
                                 !.payload.exp = e, !.payload.iss = i,
                                 !.payload.azp = z, !.payload.realm_access = r ] :
        w \in BOOLEAN, k \in { "", "k1", "kx", "k9" }, m \in { "m1", "forged" },
        e \in { {t + 300}, {t - Leeway} },
        i \in { issuer(cfg), <<"https://evil">> \o RealmPath(cfg.realm) },
        z \in { Str(cfg.client_id), Str("other-client") },
        r \in { Dict(List({cfg.required_role})), Dict(List({})), OtherDict } }

\* each of the tokens behind a Bearer header and behind two malformed headers
OrderHeaders(cfg, t) ==
    { [ words |-> w, token |-> tok ] :
        w \in { <<"bearer", "token">>, <<"Basic", "token">>, <<"Bearer">> },
        tok \in OrderTokens(cfg, t) }

\* one validation per header by thread 1, while thread 2 validates tokens that
\* differ in header and key
InitOrder ==
    /\ InitStore({DefaultUrl}, { AuthThenLog })
    /\ session = EmptySession
    /\ last = [ op |-> "init" ]
    /\ \E h \in OrderHeaders(build_config(DefaultUrl), 0) :
          threads = [ i \in Threads |->
                            IF i = 1
                            THEN [ NotInGet EXCEPT !.pc = "start",
                                       !.call = [ op |-> "validate", header |-> h ] ]
                            ELSE NotInGet ]

NextOrder ==
    \/ Respond
    \/ ValidatePending(1) \/ ValidateKeys(2)
    \/ \E i \in Threads : ValidateResume(i) \/ GetCheck(i) \/ GetFetch(i) \/ GetStoreTime(i)
SpecOrder == InitOrder /\ [][NextOrder]_vars

----------------------------------------------------------------------------
(* _token_has_role on every shape of the two role containers *)

\* the values of a "roles" member: absent, no list, a list without and with the role
RoleLists(cfg) ==
    { Absent, Other, List({}), List({"offline_access"}), List({cfg.required_role}),
      List({cfg.required_role, "offline_access"}) }

\* realm_access, and resource_access[client_id]: absent, no object, an object
RoleContainers(cfg) == { AbsentDict, OtherDict } \cup { Dict(r) : r \in RoleLists(cfg) }

\* resource_access: absent, no object, an object whose member for the client
\* is one of the containers (roles of other clients are not looked at)
ResourceAccessValues(cfg) ==
    { [ t |-> s, client |-> AbsentDict ] : s \in { "absent", "other" } }
    \cup { [ t |-> "dict", client |-> c ] : c \in RoleContainers(cfg) }

RolePayloads(cfg) ==
    { [ GoodPayload(cfg, 0) EXCEPT !.realm_access = ra, !.resource_access = res ] :
        ra \in RoleContainers(cfg), res \in ResourceAccessValues(cfg) }

\* _token_has_role(payload, client_id, required_role) on the payload the state
\* was started with
HasRolePending ==
    /\ last.op = "payload"
    /\ last' = [ op |-> "has_role", payload |-> last.payload,
                 result |-> token_has_role(last.payload, config.client_id,
                                           config.required_role) ]
    /\ UNCHANGED <<supplied, threads, pipeline, calls, log_username, config, now, ticks, cache, session, users, logins, consumed, rejected>>

InitRoles ==
    /\ InitWorker({ DefaultUrl }, { AuthThenLog })
    /\ session = EmptySession
    /\ \E p \in RolePayloads(build_config(DefaultUrl)) : last = [ op |-> "payload", payload |-> p ]

NextRoles == HasRolePending
SpecRoles == InitRoles /\ [][NextRoles]_vars

----------------------------------------------------------------------------
(* upsert_user_from_keycloak over time *)

\* the claims the provisioner is called with, by the first usable key:
\* preferred_username (padded, with and without e-mail and full name),
\* username, email, sub, none; the keys before it absent or blank
UpsertPayloads ==
    LET none == [ GoodPayload(build_config(DefaultUrl), 0) EXCEPT !.preferred_username = NoStr ]
    IN  { [ none EXCEPT !.preferred_username = <<Space, "bob", Space>>, !.username = <<"carol">>,
                        !.sub = <<"sub-1">> ],
          [ none EXCEPT !.preferred_username = <<Space, "bob", Space>>,
                        !.email = <<"bob@example.org">>, !.name = <<"Bob", Space, Space, "B">> ],
          [ none EXCEPT !.preferred_username = <<Space>>, !.username = <<"carol">>,
                        !.email = <<"bob@example.org">>, !.sub = <<"sub-1">> ],
          [ none EXCEPT !.username = <<>>, !.email = <<"bob@example.org">>,
                        !.sub = <<"sub-1">> ],
          [ none EXCEPT !.preferred_username = <<Space>>, !.email = <<Space>>,
                        !.sub = <<"sub-1">> ],
          [ none EXCEPT !.preferred_username = <<"alice">>, !.given_name = <<"Alice">> ],
          [ none EXCEPT !.preferred_username = <<Space>>, !.username = <<>>,
                        !.name = <<"Bob", Space, Space, "B">> ],
          none }

\* A step of the direct call of thread i: the call goes on (u.thread), or it
\* returns or raises to its caller. entry: the table when the call began; t0:
\* the time then; alone: no other call ran while this one did; repeat: the
\* call is alone, it did not raise, and the call that returned before it began
\* was made with the same claims, alone, and did not raise.
UpsertStep(i, call, u) ==
    /\ threads' = [ threads EXCEPT ![i] = IF u.returned THEN NotInGet ELSE u.thread ]
    /\ users' = u.users
    /\ last' = IF ~u.returned THEN last
               ELSE [ op |-> "upsert", thread |-> i, payload |-> call.payload,
                      raised |-> u.raised, user |-> u.user, entry |-> call.entry,
                      t0 |-> call.t0, alone |-> call.alone,
                      repeat |-> call.repeat /\ call.alone /\ ~u.raised ]
    /\ UNCHANGED <<supplied, pipeline, log_username, config, now, ticks, cache, session,
                   logins, consumed, rejected>>

\* thread i calls upsert_user_from_keycloak(payload): lines 25-44, it returns
\* None without a statement or waits for the statement of line 46. A call
\* that begins while another one runs is not alone, nor is the other one.
\* Thread 1 calls with every claim set, thread 2 with those of bob.
Upsert(i) ==
    /\ Idle
    /\ threads[i].pc = "out"
    /\ calls < MaxCalls
    /\ calls' = calls + 1
    /\ \E payload \in { p \in UpsertPayloads : i = 1 \/ derive_username(p) = <<"bob">> } :
       LET call == [ op |-> "upsert", payload |-> payload, entry |-> users, t0 |-> now,
                     alone |-> \A j \in Threads : threads[j].pc = "out",
                     repeat |-> /\ last.op = "idle"
                                /\ last.prev = [ payload |-> payload, raised |-> FALSE,
                                                 alone |-> TRUE ] ]
       IN  IF derive_username(payload) = NoStr
           THEN UpsertStep(i, call, [ returned |-> TRUE, raised |-> FALSE, user |-> NoStr,
                                      users |-> users ])
           ELSE /\ threads' =
                     [ j \in Threads |->
                         IF j = i
                         THEN [ NotInGet EXCEPT !.pc = "get_or_create", !.call = call,
                                                !.up = [ payload |-> payload ] ]
                         ELSE IF threads[j].call.op = "upsert"
                         THEN [ threads[j] EXCEPT !.call.alone = FALSE ]
                         ELSE threads[j] ]
                /\ UNCHANGED <<supplied, pipeline, log_username, config, now, ticks, cache,
                               session, users, logins, consumed, rejected, last>>

\* time passes between and during the calls (timezone.now() advances)
Elapse ==
    /\ Idle
    /\ ticks < MaxElapse
    /\ now' = now + 1
    /\ ticks' = ticks + 1
    /\ UNCHANGED <<supplied, threads, pipeline, calls, log_username, config, cache, session, users, logins,
                   consumed, rejected, last>>


\* the validator was not called
NotValidated == VResult("not called", "", NoPayload, FALSE, EmptyCache, <<>>, <<>>)

ApiPrefix == <<Slash, "api", Slash>>
HealthPath == <<Slash, "api", Slash, "health", Slash>>

\* the request paths the model sends
Paths == { HealthPath, <<Slash, "api", Slash, "layers", Slash>>, <<Slash, "admin", Slash>> }

\* Tokens of API clients and of the token endpoint: issued for alice (staff),
\* bob (unknown), carol (not staff) or nobody; without the role, with the role
\* as a client role, with a realm_access that is no object; expired; forged;
\* signed with an unknown key
UserTokens(cfg, t) ==
    LET good == GoodToken(cfg, t)
    IN  { [ good EXCEPT !.payload.preferred_username = u ] :
            u \in { <<"alice">>, <<Space, "bob", Space>>, <<"carol">>, <<Space>> } }
        \cup { [ good EXCEPT !.payload.realm_access = ra ] :
                 ra \in { AbsentDict, Dict(List({"offline_access"})), OtherDict } }
        \cup { [ good EXCEPT !.payload.realm_access = AbsentDict,
                             !.payload.resource_access =
                                 [ t |-> "dict", client |-> Dict(List({cfg.required_role})) ] ],
               [ good EXCEPT !.payload.exp = {t - Leeway} ],
               [ good EXCEPT !.signed = "forged" ],
               [ good EXCEPT !.kid = "k9" ],
               [ good EXCEPT !.kid = "k9", !.signed = "forged", !.payload.exp = {t - Leeway} ] }

\* process_request returning None without calling the validator (lines 35-49);
\* provisioned: what the call of the provisioner did ("not called", "raised",
\* "none" for None returned, "user")
Bypass ==
    [ passed |-> TRUE, status |-> 0, detail |-> "", error |-> "", keycloak |-> NoPayload,
      v |-> NotValidated, provisioned |-> "not called" ]

\* Attach letting the provisioner's exception escape
Attach_FailClosed(v, up) ==
    [ passed |-> ~up.raised, status |-> IF up.raised THEN 500 ELSE 0, detail |-> "",
      error |-> IF up.raised THEN "DatabaseError" ELSE "",
      keycloak |-> IF up.raised THEN NoPayload ELSE v.payload, v |-> v,
      provisioned |-> IF up.raised THEN "raised"
                      ELSE IF up.user = NoStr THEN "none" ELSE "user" ]

\* lines 62-69 of process_request after the call of the provisioner returned
\* or raised (up): the exception is dropped, the claims are attached
Attach(v, up) ==
    [ passed |-> TRUE, status |-> 0, detail |-> "", error |-> "", keycloak |-> v.payload,
      v |-> v,
      provisioned |-> IF up.raised THEN "raised"
                      ELSE IF up.user = NoStr THEN "none" ELSE "user" ]

\* Authorize without the role check
Authorize_NoRoleCheck(v, th) ==
    LET reject == [ Bypass EXCEPT !.v = v, !.passed = FALSE ]
    IN  IF v.kind = "Exception"
        THEN Done([ reject EXCEPT !.status = 500, !.error = v.reason ])
        ELSE IF v.kind = "TokenError"
        THEN Done([ reject EXCEPT !.status = 401, !.detail = "Unauthorized",
                                  !.error = v.reason ])
        ELSE IF derive_username(v.payload) = NoStr
        THEN Done(Attach(v, [ raised |-> FALSE, user |-> NoStr ]))
        ELSE GoesOn([ NotInGet EXCEPT !.pc = "get_or_create", !.call = th.call,
                                      !.net = th.net, !.v = v,
                                      !.up = [ payload |-> v.payload ] ])

\* Authorize answering a TokenError like a missing role
Authorize_ForbiddenOnTokenError(v, th) ==
    LET reject == [ Bypass EXCEPT !.v = v, !.passed = FALSE ]
    IN  IF v.kind = "Exception"
        THEN Done([ reject EXCEPT !.status = 500, !.error = v.reason ])
        ELSE IF v.kind = "TokenError" \/ ~v.has_role
        THEN Done([ reject EXCEPT !.status = 403, !.detail = "Forbidden",
                                  !.error = "Missing required role" ])
        ELSE IF derive_username(v.payload) = NoStr
        THEN Done(Attach(v, [ raised |-> FALSE, user |-> NoStr ]))
        ELSE GoesOn([ NotInGet EXCEPT !.pc = "get_or_create", !.call = th.call,
                                      !.net = th.net, !.v = v,
                                      !.up = [ payload |-> v.payload ] ])

\* lines 52-63 of process_request, v being what validate_keycloak_jwt produced
\* for the request of thread th: 401 on TokenError, 403 without the role, 500
\* when another exception escapes; otherwise the provisioner is called, which
\* returns None at once (no usable username) or waits for its first statement
Authorize(v, th) ==
    LET reject == [ Bypass EXCEPT !.v = v, !.passed = FALSE ]
    IN  IF v.kind = "Exception"
        THEN Done([ reject EXCEPT !.status = 500, !.error = v.reason ])
        ELSE IF v.kind = "TokenError"
        THEN Done([ reject EXCEPT !.status = 401, !.detail = "Unauthorized",
                                  !.error = v.reason ])
        ELSE IF ~v.has_role
        THEN Done([ reject EXCEPT !.status = 403, !.detail = "Forbidden",
                                  !.error = "Missing required role" ])
        ELSE IF derive_username(v.payload) = NoStr
        THEN Done(Attach(v, [ raised |-> FALSE, user |-> NoStr ]))
        ELSE GoesOn([ NotInGet EXCEPT !.pc = "get_or_create", !.call = th.call,
                                      !.net = th.net, !.v = v,
                                      !.up = [ payload |-> v.payload ] ])

\* lines 52-63 of process_request around the validator's step b
process_validated(b, th) == IF b.done THEN Authorize(b.r, th) ELSE GoesOn(b.thread)

\* process_request without the exemption of the health-check path
process_request_NoHealthBypass(cfg, call, c, t) ==
    IF call.method = "OPTIONS" THEN Done(Bypass)
    ELSE IF ~StartsWith(call.path, ApiPrefix) THEN Done(Bypass)
    ELSE IF call.staff THEN Done(Bypass)
    ELSE process_validated(validate_keycloak_jwt(cfg, call, c, t),
                           [ NotInGet EXCEPT !.call = call ])

\* KeycloakRequiredMiddleware.process_request up to the cache test of the
\* validator's first get: passed is the request reaching the downstream handler
\* (None returned, no status), 500 an unhandled exception.
\* call.staff: the request carries an authenticated is_staff session.
process_request(cfg, call, c, t) ==
    IF call.method = "OPTIONS" THEN Done(Bypass)
    ELSE IF ~StartsWith(call.path, ApiPrefix) THEN Done(Bypass)
    ELSE IF call.path = HealthPath THEN Done(Bypass)
    ELSE IF call.staff THEN Done(Bypass)
    ELSE process_validated(validate_keycloak_jwt(cfg, call, c, t),
                           [ NotInGet EXCEPT !.call = call ])

\* the step p of thread i in process_request for call, which leaves the table
\* tbl: the thread goes on, or the request is answered. The header and the
\* network's answers are observed only when the middleware called the validator.
ApiStep(i, call, net, p, tbl) ==
    /\ threads' = [ threads EXCEPT ![i] = p.thread ]
    /\ users' = tbl
    /\ last' = IF ~p.done THEN last
               ELSE LET called == p.r.v.kind # "not called"
                    IN  [ op |-> "api", thread |-> i, method |-> call.method,
                          path |-> call.path, staff |-> call.staff,
                          header |-> IF called THEN call.header ELSE HeaderOf(NoToken),
                          net |-> IF called THEN net ELSE <<>>,
                          passed |-> p.r.passed, status |-> p.r.status,
                          detail |-> p.r.detail, error |-> p.r.error,
                          keycloak |-> p.r.keycloak,
                          v |-> p.r.v, provisioned |-> p.r.provisioned ]
    /\ UNCHANGED <<supplied, pipeline, calls, log_username, config, now, ticks, cache, session, logins, consumed, rejected>>

\* a request through KeycloakRequiredMiddleware arrives on thread i, with or
\* without the browser's session cookie.
\* The tokens are those of UserTokens but carol's (to the gateway a user
\* without the staff flag is a user like bob) and the token that is sound but
\* for its unknown key (the forged and expired one has that key too).
ApiRequest(i) ==
    /\ Idle
    /\ threads[i].pc = "out"
    /\ \E method \in { "GET", "OPTIONS" }, path \in Paths, cookie \in BOOLEAN,
          auth \in Headers(config, now,
                           { tok \in UserTokens(config, now) :
                               /\ tok.payload.preferred_username # <<"carol">>
                               /\ tok.kid = "k9" => tok.signed = "forged" }) :
        \E call \in { [ op |-> "api", method |-> method, path |-> path, header |-> auth,
                         staff |-> cookie /\ IsStaffSession(session, users) ] } :
            ApiStep(i, call, <<>>, process_request(config, call, cache, now), users)

\* a get of the validation of the request on thread i returned or raised
ApiResume(i) ==
    /\ Idle
    /\ threads[i].pc = "return"
    /\ threads[i].call.op = "api"
    /\ ApiStep(i, threads[i].call, threads[i].net,
               process_validated(ValidateLookup(config, threads[i], cache, now), threads[i]),
               users)

\* The gateway: requests of clients and of browsers whose session is anonymous,
\* alice's (staff) or carol's (not staff), served by two threads
InitGateway ==
    /\ InitWorker({ DefaultUrl, <<"https://sso">> }, { AuthThenLog })
    /\ \E u \in { NoStr, <<"alice">>, <<"carol">> } :
          session = [ EmptySession EXCEPT !.user = u ]
    /\ last = [ op |-> "init" ]
----------------------------------------------------------------------------
(* Identity for the access log: logging_middleware.py, request_context.py *)

\* request_context.set_log_username: _local.username = username or ""
set_log_username(username) == IF username = NoStr THEN <<>> ELSE username

\* isinstance(v, str) and v.strip(): the stripped value, <<>> if there is none
StrippedStr(v) == IF v # NoStr THEN Strip(v) ELSE <<>>

\* log_process_request with the fallback header consulted first
log_process_request_HeaderFirst(user, keycloak, xhdr) ==
    LET from_header == StrippedStr(xhdr)
        from_session == IF from_header # <<>> THEN from_header
                        ELSE IF user # NoStr THEN user ELSE <<>>
        from_token == IF from_session # <<>> THEN from_session
                      ELSE IF keycloak # NoPayload
                      THEN StrippedStr(keycloak.preferred_username)
                      ELSE <<>>
    IN  set_log_username(from_token)

\* RequestLogContextMiddleware.process_request: the value it stores in
\* _local.username. user: request.user's username (NoStr: not authenticated);
\* keycloak: request.keycloak (NoPayload: not set); xhdr: X-Preferred-Username.
log_process_request(user, keycloak, xhdr) ==
    LET from_session == IF user # NoStr THEN user ELSE <<>>
        from_token == IF from_session # <<>> THEN from_session
                      ELSE IF keycloak # NoPayload
                      THEN StrippedStr(keycloak.preferred_username)
                      ELSE <<>>
        from_header == IF from_token # <<>> THEN from_token ELSE StrippedStr(xhdr)
    IN  set_log_username(from_header)

\* One request through the two middlewares in the order pl (MiddlewareMixin:
\* a process_request that returns a response or raises ends the request, the
\* process_request of the middlewares after it is not called). r: the outcome
\* of KeycloakRequiredMiddleware; prev: _local.username before the request;
\* username: the value at the time the access log is written.
handle_request(pl, user, xhdr, r, prev) ==
    [ auth |-> r,
      log_called |-> pl = LogThenAuth \/ r.passed,
      username |-> IF pl = LogThenAuth THEN log_process_request(user, NoPayload, xhdr)
                   ELSE IF r.passed THEN log_process_request(user, r.keycloak, xhdr)
                   ELSE prev ]

\* the bearer tokens of the logged requests: alice's, one whose
\* preferred_username is padded, one without the role, an expired one
LogTokens(cfg, t) ==
    LET good == GoodToken(cfg, t)
    IN  { good,
          [ good EXCEPT !.payload.preferred_username = <<Space, "bob", Space>> ],
          [ good EXCEPT !.payload.realm_access = AbsentDict ],
          [ good EXCEPT !.payload.exp = {t - Leeway} ] }

\* AuthenticationMiddleware: the username of request.user, NoStr if the
\* request has no session cookie or the session no user
RequestUser(cookie, sess, tbl) ==
    IF cookie /\ sess.user # NoStr /\ tbl[sess.user].exists THEN sess.user ELSE NoStr

\* the step p of the worker thread i in KeycloakRequiredMiddleware for call,
\* which leaves the table tbl: the thread goes on, or the request runs to the
\* access log. With RequestLogContextMiddleware first, _local.username is set
\* before KeycloakRequiredMiddleware begins.
LogStep(i, call, p, tbl) ==
    /\ threads' = [ threads EXCEPT ![i] = p.thread ]
    /\ users' = tbl
    /\ log_username' =
          IF p.done
          THEN handle_request(pipeline, call.user, call.xhdr, p.r, call.previous).username
          ELSE IF pipeline = LogThenAuth
          THEN log_process_request(call.user, NoPayload, call.xhdr)
          ELSE log_username
    /\ last' = IF ~p.done THEN last
               ELSE LET h == handle_request(pipeline, call.user, call.xhdr, p.r, call.previous)
                    IN  [ op |-> "logged", method |-> call.method, path |-> call.path,
                          user |-> call.user,
                          header |-> IF p.r.v.kind # "not called" THEN call.header
                                     ELSE HeaderOf(NoToken),
                          xhdr |-> call.xhdr, previous |-> call.previous,
                          passed |-> p.r.passed, status |-> p.r.status,
                          keycloak |-> p.r.keycloak, log_called |-> h.log_called,
                          logged_as |-> h.username ]
    /\ UNCHANGED <<supplied, pipeline, calls, config, now, ticks, cache, session, logins, consumed, rejected>>

\* a request arrives on the worker thread i and goes through both middlewares
LoggedRequest(i) ==
    /\ Idle
    /\ threads[i].pc = "out"
    /\ \E method \in { "GET", "OPTIONS" }, path \in Paths, cookie \in BOOLEAN,
          auth \in { HeaderOf(tok) : tok \in LogTokens(config, now) }
                     \cup { [ words |-> <<>>, token |-> GoodToken(config, now) ] },
          xhdr \in { NoStr, <<Space>>, <<Space, "mallory", Space>> } :
        \E call \in { [ op |-> "logged", method |-> method, path |-> path, header |-> auth,
                         staff |-> cookie /\ IsStaffSession(session, users),
                         user |-> RequestUser(cookie, session, users), xhdr |-> xhdr,
                         previous |-> log_username ] } :
            LogStep(i, call, process_request(config, call, cache, now), users)

\* a get of the validation of the request on the worker thread i returned or raised
LogResume(i) ==
    /\ Idle
    /\ threads[i].pc = "return"
    /\ threads[i].call.op = "logged"
    /\ LogStep(i, threads[i].call,
               process_validated(ValidateLookup(config, threads[i], cache, now), threads[i]),
               users)

\* The access log of the worker thread 1, the middlewares in either order, while
\* thread 2 calls the cache; the browser's session is anonymous, alice's or carol's
InitLog ==
    /\ InitWorker({ DefaultUrl }, { AuthThenLog, LogThenAuth })
    /\ \E u \in { NoStr, <<"alice">>, <<"carol">> } :
          session = [ EmptySession EXCEPT !.user = u ]
    /\ last = [ op |-> "init" ]
\* The inputs of RequestLogContextMiddleware.process_request: the username of
\* an authenticated request.user (NoStr: anonymous; <<>>: a blank username),
\* request.keycloak with its preferred_username, the fallback header
ResolveUsers == { NoStr, <<>>, <<"alice">> }
ResolveClaims ==
    { NoPayload }
    \cup { [ GoodPayload(build_config(DefaultUrl), 0) EXCEPT !.preferred_username = u ] :
             u \in { NoStr, <<>>, <<Space>>, <<"bob">>, <<Space, "bob", Space>> } }
ResolveHeaders == { NoStr, <<>>, <<Space>>, <<"mallory">>, <<Space, "mallory", Space>> }

\* RequestLogContextMiddleware.process_request on the request the state was
\* started with
ResolvePending ==
    /\ last.op = "resolve"
    /\ \E u \in { log_process_request(last.user, last.keycloak, last.xhdr) } :
          /\ log_username' = u
          /\ last' = [ op |-> "resolved", user |-> last.user, keycloak |-> last.keycloak,
                       xhdr |-> last.xhdr, username |-> u ]
    /\ UNCHANGED <<supplied, threads, pipeline, calls, config, now, ticks, cache, session, users, logins, consumed,
                   rejected>>

InitResolve ==
    /\ InitWorker({ DefaultUrl }, { AuthThenLog })
    /\ session = EmptySession
    /\ \E user \in ResolveUsers, keycloak \in ResolveClaims, xhdr \in ResolveHeaders :
          last = [ op |-> "resolve", user |-> user, keycloak |-> keycloak, xhdr |-> xhdr ]

NextResolve == ResolvePending
SpecResolve == InitResolve /\ [][NextResolve]_vars

----------------------------------------------------------------------------
(* PKCE login flow: admin_keycloak.py *)

AdminPath == <<Slash, "admin", Slash>>
\* the redirect to the identity provider's authorization endpoint
AuthEndpoint(cfg) == issuer(cfg) \o <<Slash, "protocol", Slash, "openid-connect", Slash, "auth">>

\* the values of ?next= the model sends: none, a path of this site, a
\* protocol-relative url, an absolute url
NextValues ==
    { NoStr, <<Slash, "admin", Slash, "auth", Slash>>, <<Slash, Slash, "evil.example", Slash>>,
      <<"https://evil.example", Slash>> }

\* the test of lines 60 and 157: isinstance(next_url, str) and next_url.startswith("/")
NextAccepted(next_url) == next_url # NoStr /\ StartsWith(next_url, <<Slash>>)

\* admin_keycloak_login keeping the values of a flow already started
admin_keycloak_login_KeepFlow(cfg, sess, tbl, next_url, fresh) ==
    IF IsStaffSession(sess, tbl)
    THEN [ status |-> 302, location |-> AdminPath, session |-> sess, started |-> FALSE ]
    ELSE [ status |-> 302, location |-> AuthEndpoint(cfg), started |-> TRUE,
           session |-> [ sess EXCEPT !.kc_admin_state = IF @ # 0 THEN @ ELSE fresh,
                                     !.kc_admin_nonce = IF @ # 0 THEN @ ELSE fresh,
                                     !.kc_admin_verifier = IF @ # 0 THEN @ ELSE fresh,
                                     !.kc_admin_next =
                                         IF NextAccepted(next_url) THEN next_url ELSE @ ] ]

\* admin_keycloak_login; fresh: the value secrets.token_urlsafe draws for
\* state, nonce and verifier
admin_keycloak_login(cfg, sess, tbl, next_url, fresh) ==
    IF IsStaffSession(sess, tbl)
    THEN [ status |-> 302, location |-> AdminPath, session |-> sess, started |-> FALSE ]
    ELSE [ status |-> 302, location |-> AuthEndpoint(cfg), started |-> TRUE,
           session |-> [ sess EXCEPT !.kc_admin_state = fresh,
                                     !.kc_admin_nonce = fresh,
                                     !.kc_admin_verifier = fresh,
                                     !.kc_admin_next =
                                         IF NextAccepted(next_url) THEN next_url ELSE @ ] ]

\* StateMatches without the comparison
StateMatches_AnyState(sess, state) == sess.kc_admin_state # 0

\* line 100: expected_state and state == expected_state
StateMatches(sess, state) == sess.kc_admin_state # 0 /\ state = sess.kc_admin_state

\* Precondition without the test of the provider's error parameter
Precondition_NoErrorCheck(q, sess) ==
    IF q.code = "" \/ q.state = 0 THEN "Missing code/state"
    ELSE IF ~StateMatches(sess, q.state) THEN "Invalid state"
    ELSE IF sess.kc_admin_verifier = 0 THEN "Missing PKCE verifier"
    ELSE ""

\* lines 84-104: the body of the 400 answer to a failed precondition, "" if none
Precondition(q, sess) ==
    IF q.error # "" THEN "Keycloak error"
    ELSE IF q.code = "" \/ q.state = 0 THEN "Missing code/state"
    ELSE IF ~StateMatches(sess, q.state) THEN "Invalid state"
    ELSE IF sess.kc_admin_verifier = 0 THEN "Missing PKCE verifier"
    ELSE ""

\* an answer of the callback that leaves the session sess the request loaded
CallbackReply(status, body, sess) ==
    [ status |-> status, body |-> body, location |-> NoStr, session |-> sess,
      exchanged |-> FALSE, v |-> NotValidated, user |-> NoStr, is_staff |-> FALSE,
      login_called |-> FALSE ]

\* lines 140-160 after the call of the provisioner returned or raised (up):
\* clear the flow's session keys, require is_staff of the returned object, log
\* in and redirect
CallbackProvision(sess, v, up) ==
    LET base == [ CallbackReply(0, "", sess) EXCEPT
                      !.exchanged = TRUE, !.v = v, !.user = up.user ]
        cleared == [ sess EXCEPT !.kc_admin_state = 0, !.kc_admin_nonce = 0,
                                 !.kc_admin_verifier = 0 ]
        logged == auth_login(cleared, up.user)
    IN  IF up.raised
        THEN [ base EXCEPT !.status = 500, !.body = "DatabaseError" ]
        ELSE IF up.user = NoStr
        THEN [ base EXCEPT !.status = 400, !.body = "Failed to map Keycloak user" ]
        ELSE IF ~up.obj.is_staff
        THEN [ base EXCEPT !.status = 403, !.body = "is_staff", !.session = auth_logout(cleared) ]
        ELSE [ base EXCEPT !.status = 302, !.is_staff = TRUE, !.login_called = TRUE,
                           !.session = [ logged EXCEPT !.kc_admin_next = NoStr ],
                           !.location = IF NextAccepted(logged.kc_admin_next)
                                        THEN logged.kc_admin_next ELSE AdminPath ]

\* CallbackValidated answering the missing role without logout()
CallbackValidated_NoLogout(sess, v, th) ==
    LET base == [ CallbackReply(0, "", sess) EXCEPT !.exchanged = TRUE, !.v = v ]
    IN  IF v.kind = "Exception"
        THEN Done([ base EXCEPT !.status = 500, !.body = v.reason ])
        ELSE IF v.kind = "TokenError"
        THEN Done([ base EXCEPT !.status = 400, !.body = "Token validation failed" ])
        ELSE IF ~v.has_role
        THEN Done([ base EXCEPT !.status = 403, !.body = "role" ])
        ELSE IF derive_username(v.payload) = NoStr
        THEN Done(CallbackProvision(sess, v, [ raised |-> FALSE, user |-> NoStr,
                                               obj |-> NoRecord ]))
        ELSE GoesOn([ NotInGet EXCEPT !.pc = "get_or_create", !.call = th.call,
                                      !.net = th.net, !.v = v,
                                      !.up = [ payload |-> v.payload ] ])

\* lines 131-140: the answer to what validate_keycloak_jwt produced for the
\* callback of thread th, or the call of the provisioner, which returns None at
\* once (no usable username) or waits for its first statement
CallbackValidated(sess, v, th) ==
    LET base == [ CallbackReply(0, "", sess) EXCEPT !.exchanged = TRUE, !.v = v ]
    IN  IF v.kind = "Exception"
        THEN Done([ base EXCEPT !.status = 500, !.body = v.reason ])
        ELSE IF v.kind = "TokenError"
        THEN Done([ base EXCEPT !.status = 400, !.body = "Token validation failed" ])
        ELSE IF ~v.has_role
        THEN Done([ base EXCEPT !.status = 403, !.body = "role", !.session = auth_logout(sess) ])
        ELSE IF derive_username(v.payload) = NoStr
        THEN Done(CallbackProvision(sess, v, [ raised |-> FALSE, user |-> NoStr,
                                               obj |-> NoRecord ]))
        ELSE GoesOn([ NotInGet EXCEPT !.pc = "get_or_create", !.call = th.call,
                                      !.net = th.net, !.v = v,
                                      !.up = [ payload |-> v.payload ] ])

\* lines 131-140 around the validator's step b
callback_validated(b, th) ==
    IF b.done THEN CallbackValidated(th.call.sess, b.r, th) ELSE GoesOn(b.thread)

\* admin_keycloak_callback from its first line to the token request (lines
\* 84-120): a 400 answer, or the thread waiting in requests.post.
\* call.q: the query parameters error, code, state ("" and 0: absent);
\* call.sess: the session the request loaded.
admin_keycloak_callback(cfg, call) ==
    IF Precondition(call.q, call.sess) # ""
    THEN Done(CallbackReply(400, Precondition(call.q, call.sess), call.sess))
    ELSE GoesOn([ NotInGet EXCEPT !.pc = "post", !.call = call ])

\* lines 120-131 from the answer of the token endpoint to the cache test of the
\* validator's first get. call.xchg: the token endpoint's answer, "fail"
\* (requests raises), "empty" (no access_token) or "token", the access token
\* in call.header.
CallbackExchanged(cfg, call, c, t) ==
    IF call.xchg = "fail"
    THEN Done([ CallbackReply(400, "Token exchange failed", call.sess) EXCEPT
                    !.exchanged = TRUE ])
    ELSE IF call.xchg = "empty"
    THEN Done([ CallbackReply(400, "Missing access_token", call.sess) EXCEPT
                    !.exchanged = TRUE ])
    ELSE callback_validated(validate_keycloak_jwt(cfg, call, c, t),
                            [ NotInGet EXCEPT !.call = call ])

\* GET /admin/keycloak/login/?next=... , served without a wait
Login ==
    /\ Idle
    /\ logins < MaxLogins
    /\ \E next_url \in NextValues :
       \E r \in { admin_keycloak_login(config, session, users, next_url, logins + 1) } :
            /\ session' = r.session
            /\ logins' = IF r.started THEN logins + 1 ELSE logins
            /\ rejected' = IF r.started THEN FALSE ELSE rejected
            /\ supplied' = IF r.started THEN next_url ELSE supplied
            /\ last' = [ op |-> "login", next |-> next_url, status |-> r.status,
                         location |-> r.location, started |-> r.started ]
            /\ UNCHANGED <<threads, pipeline, calls, log_username, config, now, ticks, cache, users, consumed>>

\* the answers of the token endpoint
Exchanges(cfg, t) ==
    { [ kind |-> "fail", token |-> NoToken ], [ kind |-> "empty", token |-> NoToken ] }
    \cup { [ kind |-> "token", token |-> tok ] : tok \in UserTokens(cfg, t) }

\* the step p of thread i in the callback for call, which leaves the table tbl:
\* the thread goes on, or the callback is answered. The session the request
\* worked on is stored when the request changed it (302: keys deleted and
\* login(); 403: logout()); a 400 or 500 answer stores nothing. consumed and
\* rejected record the callbacks that passed the state check and were answered
\* with a handled status.
CallbackStep(i, call, p, tbl) ==
    /\ threads' = [ threads EXCEPT ![i] = p.thread ]
    /\ session' = IF p.done /\ p.r.status \in { 302, 403 } THEN p.r.session ELSE session
    /\ users' = tbl
    /\ consumed' = IF p.done /\ p.r.exchanged /\ p.r.status # 500
                   THEN consumed \cup {call.q.state} ELSE consumed
    /\ rejected' = IF p.done /\ p.r.exchanged /\ p.r.status \in {400, 403}
                   THEN TRUE ELSE rejected
    /\ last' = IF ~p.done THEN last
               ELSE [ op |-> "callback", thread |-> i, q |-> call.q, before |-> call.sess,
                      logins |-> call.logins, supplied |-> call.supplied,
                      replay |-> call.replay, after_reject |-> call.after_reject,
                      xchg |-> IF p.r.exchanged THEN call.xchg ELSE "not attempted",
                      status |-> p.r.status, body |-> p.r.body, location |-> p.r.location,
                      v |-> p.r.v, user |-> p.r.user, is_staff |-> p.r.is_staff,
                      login_called |-> p.r.login_called ]
    /\ UNCHANGED <<supplied, pipeline, log_username, config, now, ticks, cache, logins>>

\* GET /admin/keycloak/callback/?code=...&state=...&error=... arrives on thread
\* i: the request loads the browser's session (lines 94-95) and runs to its
\* answer or to the token request. logins, supplied, replay, after_reject: the
\* flows started, the next of the latest one, and the history of the state it
\* presents, at its arrival. Thread 1 serves every callback, thread 2 those
\* with a code and a state and without error.
Callback(i) ==
    /\ Idle
    /\ threads[i].pc = "out"
    /\ calls < MaxCallbacks
    /\ calls' = calls + 1
    /\ \E error \in { "", "access_denied" }, code \in { "", "code" }, state \in 0..MaxLogins :
       /\ i = 1 \/ (error = "" /\ code = "code" /\ state # 0)
       /\ \E call \in { [ op |-> "callback",
                        q |-> [ error |-> error, code |-> code, state |-> state ],
                        sess |-> session, logins |-> logins, supplied |-> supplied,
                        replay |-> state \in consumed, after_reject |-> rejected,
                        xchg |-> "not attempted", header |-> HeaderOf(NoToken) ] } :
            CallbackStep(i, call, admin_keycloak_callback(config, call), users)

\* line 120: requests.post to the token endpoint answers (or raises) on thread
\* i; on thread 2 it answers with the token of alice or of bob
CallbackExchange(i) ==
    /\ Idle
    /\ threads[i].pc = "post"
    /\ UNCHANGED calls
    /\ \E xchg \in { x \in Exchanges(config, now) :
                       \/ i = 1
                       \/ /\ x.kind = "token"
                          /\ x.token \in
                               { [ GoodToken(config, now) EXCEPT !.payload.preferred_username = u ] :
                                   u \in { <<"alice">>, <<Space, "bob", Space>> } } } :
       \E call \in { [ threads[i].call EXCEPT !.xchg = xchg.kind,
                                              !.header = HeaderOf(xchg.token) ] } :
            CallbackStep(i, call, CallbackExchanged(config, call, cache, now), users)

\* a get of the validation of the callback on thread i returned or raised
CallbackResume(i) ==
    /\ Idle
    /\ threads[i].pc = "return"
    /\ threads[i].call.op = "callback"
    /\ UNCHANGED calls
    /\ CallbackStep(i, threads[i].call,
                    callback_validated(ValidateLookup(config, threads[i], cache, now),
                                       threads[i]),
                    users)

\* The login flow of one browser session, anonymous or already logged in as
\* carol (not staff), its requests served by two threads; the configuration
\* has no alternate JWKS url, a validation calls get once
InitLogin ==
    /\ InitWorker({ <<"https://sso">> }, { AuthThenLog })
    /\ \E u \in { NoStr, <<"carol">> } : session = [ EmptySession EXCEPT !.user = u ]
    /\ last = [ op |-> "init" ]

----------------------------------------------------------------------------
(* The statements of upsert_user_from_keycloak, and the specifications of its callers *)

\* A statement of the provisioner on thread i is executed by the database, or
\* fails there: the thread waits for its next statement, or the call returns
\* or raises (u) and its caller runs on to the answer.
Execute(i) ==
    \E db \in { "ok", "error" } :
    \E u \in { Statement(threads[i], users, now, db) } :
        LET th == threads[i]
            call == th.call
        IN  CASE ~u.returned ->
                     /\ threads' = [ threads EXCEPT ![i] = u.thread ]
                     /\ users' = u.users
                     /\ UNCHANGED <<supplied, pipeline, calls, log_username, config, now, ticks,
                                    cache, session, logins, consumed, rejected, last>>
              [] u.returned /\ call.op = "api" ->
                     ApiStep(i, call, th.net, Done(Attach(th.v, u)), u.users)
              [] u.returned /\ call.op = "logged" ->
                     LogStep(i, call, Done(Attach(th.v, u)), u.users)
              [] u.returned /\ call.op = "callback" ->
                     /\ CallbackStep(i, call, Done(CallbackProvision(call.sess, th.v, u)),
                                     u.users)
                     /\ UNCHANGED calls
              [] u.returned /\ call.op = "upsert" ->
                     UpsertStep(i, call, u) /\ UNCHANGED calls

\* line 46: User.objects.get_or_create(username=..., defaults=...) of thread i
GetOrCreate(i) == Idle /\ threads[i].pc = "get_or_create" /\ Execute(i)

\* lines 85 and 87: user.save() or user.save(update_fields=...) of thread i
Save(i) == Idle /\ threads[i].pc = "save" /\ Execute(i)

\* upsert_user_from_keycloak called directly by two threads while time passes
NextUpsert ==
    \/ Elapse
    \/ Respond
    \/ \E i \in Threads : Upsert(i) \/ GetOrCreate(i) \/ Save(i)
SpecUpsert == InitThreads /\ [][NextUpsert]_vars

NextGateway ==
    \/ Respond
    \/ \E i \in Threads :
          \/ ApiRequest(i) \/ ApiResume(i) \/ GetCheck(i) \/ GetFetch(i) \/ GetStoreTime(i)
          \/ GetOrCreate(i) \/ Save(i)
SpecGateway == InitGateway /\ [][NextGateway]_vars

NextLog ==
    \/ Respond
    \/ LoggedRequest(1) \/ LogResume(1) \/ GetCheck(1) \/ GetOrCreate(1) \/ Save(1)
    \/ JwksGet(2) \/ GetReturn(2)
    \/ \E i \in Threads : GetFetch(i) \/ GetStoreTime(i)
SpecLog == InitLog /\ [][NextLog]_vars

NextLogin ==
    \/ Respond
    \/ Login
    \/ \E i \in Threads :
          \/ Callback(i) \/ CallbackExchange(i) \/ CallbackResume(i)
          \/ GetFetch(i) \/ GetStoreTime(i) \/ GetOrCreate(i) \/ Save(i)
SpecLogin == InitLogin /\ [][NextLogin]_vars

----------------------------------------------------------------------------
(* Properties of the key cache and of the key lookup *)

\* the validation reached the key lookup with a token the header carried
LookedUp ==
    /\ last.op = "validate"
    /\ extract_bearer_token(last.header) # NoToken
    /\ last.header.token.wellformed
    /\ last.header.token.kid # ""

KidIn(keys, kid) == \E i \in 1..Len(keys) : keys[i].kid = kid

HasDistinctAltJwks == Truthy(alt_jwks_url(config)) /\ alt_jwks_url(config) # jwks_url(config)

\* C4 (as claimed): when the token's kid is not in the key set of the primary
\* JWKS url and a different alternate url exists, the kid is looked up in the key
\* set served by the alternate url: a kid only that url serves is found, and
\* "Signing key not found" means the kid is in neither key set.
C4_AltKeySetConsulted ==
    ( /\ LookedUp
      /\ last.v.kind # "Exception"
      /\ last.v.reason # "Invalid JWKS"
      /\ HasDistinctAltJwks
      /\ ~KidIn(ServedKeys(config, jwks_url(config)), last.header.token.kid) )
    => ( last.v.reason = "Signing key not found"
           <=> ~KidIn(ServedKeys(config, alt_jwks_url(config)), last.header.token.kid) )

\* the step is thread 1 entering get; it is a step that returns a direct get
GetEntered == threads[1].pc = "out" /\ threads'[1].pc # "out"
GetReturned == last.op # "get" /\ last'.op = "get"

\* C7: with one call after the other, a get that finds a key set younger than
\* ttl_seconds goes on without a fetch and leaves the cache alone, a get that
\* finds none, or one whose age has reached ttl_seconds, goes to the network;
\* a get that returns after a successful fetch made exactly one, of its url, and
\* left the cache stamped with the time it read, and a get that returns
\* without a fetch found a set younger than ttl_seconds.
C7_FetchOncePerTtl ==
    [][ /\ GetEntered =>
              /\ threads'[1].pc =
                     IF cache.jwks # NoJwks /\ now - cache.fetched_at < ttl_seconds
                     THEN "return" ELSE "miss"
              /\ threads'[1].fetched = <<>>
              /\ cache' = cache
        /\ (GetReturned /\ last'.net # "fail") =>
              IF last'.net = "none"
              THEN /\ last'.g.fetched = <<>>
                   /\ cache.jwks # NoJwks /\ last'.t - cache.fetched_at < ttl_seconds
              ELSE /\ last'.g.fetched = << last'.url >>
                   /\ cache.jwks # NoJwks
                   /\ cache.fetched_at = last'.t ]_vars

\* C7 witness: a get has refetched the key set stamped at time 1 when its age
\* had reached exactly ttl_seconds (the new stamp is not yet written)
C7_Witness ==
    /\ threads[1].pc = "stored"
    /\ cache.fetched_at = 1
    /\ threads[1].t - cache.fetched_at = ttl_seconds
    /\ Len(threads[1].fetched) = 1

----------------------------------------------------------------------------
(* Properties of the claim checks *)

\* the validation decoded the token with the key "k1" names
Decoded ==
    /\ last.op = "validate"
    /\ last.v.decodes # <<>>

TheToken == last.header.token

BadSignature == TheToken.signed # "m1"
Immature == \E v \in TheToken.payload.nbf : v > now + clock_skew_seconds
Expired == \E v \in TheToken.payload.exp : v <= now - clock_skew_seconds

HasDistinctAltIssuer == Truthy(alt_issuer(config)) /\ alt_issuer(config) # issuer(config)

\* C8: the decode against the alternate issuer happens only after the decode
\* against the primary issuer failed with an issuer mismatch; a token with an
\* invalid signature, a not-yet-valid or an expired token is decoded once and
\* rejected with the reason of that defect, whatever its issuer.
C8_FallbackOnlyOnIssuerMismatch ==
    Decoded =>
        /\ Len(last.v.decodes) <= 2
        /\ Len(last.v.decodes) = 2 => last.v.decodes[1] = "InvalidIssuerError"
        /\ (BadSignature \/ Immature \/ Expired) =>
              /\ last.v.kind = "TokenError"
              /\ Len(last.v.decodes) = 1
              /\ last.v.reason \in
                    { r \in { "Invalid token signature", "Token not yet valid (nbf/iat)",
                              "Token expired" } :
                        \/ r = "Invalid token signature" /\ BadSignature
                        \/ r = "Token not yet valid (nbf/iat)" /\ Immature
                        \/ r = "Token expired" /\ Expired }

\* C8 witness: an expired token naming the alternate issuer, on a configuration
\* that has one, is rejected as expired
C8_Witness ==
    /\ Decoded
    /\ HasDistinctAltIssuer
    /\ TheToken.payload.iss = alt_issuer(config)
    /\ Expired /\ ~BadSignature /\ ~Immature
    /\ last.v.reason = "Token expired"

\* the token passes every check but the issuer's and the audience's
SoundButIssuer ==
    /\ Decoded
    /\ ~BadSignature /\ ~Immature /\ ~Expired
    /\ TheToken.payload.iss # NoStr

AudienceNamesClient ==
    LET aud == TheToken.payload.aud
        azp == TheToken.payload.azp
    IN  \/ aud = Str(config.client_id)
        \/ aud.t = "list" /\ config.client_id \in aud.v
        \/ azp = Str(config.client_id)

\* C9: with a distinct alternate issuer configured, a sound token naming it
\* passes the issuer check and is accepted (its audience naming the client);
\* a token naming neither issuer is rejected with "Invalid issuer"; and with no
\* distinct alternate, every token naming another issuer than the primary one is
\* rejected with "Invalid issuer".
C9_AlternateIssuerAccepted ==
    SoundButIssuer =>
        /\ (HasDistinctAltIssuer /\ TheToken.payload.iss = alt_issuer(config)) =>
              /\ last.v.reason # "Invalid issuer"
              /\ AudienceNamesClient => last.v.kind = "ok" /\ last.v.payload = TheToken.payload
        /\ (~HasDistinctAltIssuer /\ TheToken.payload.iss # issuer(config)) =>
              last.v.kind = "TokenError" /\ last.v.reason = "Invalid issuer"
        /\ (TheToken.payload.iss # issuer(config) /\ TheToken.payload.iss # alt_issuer(config)) =>
              last.v.kind = "TokenError" /\ last.v.reason = "Invalid issuer"

\* C9 witness: a token naming the alternate issuer is accepted
C9_Witness ==
    /\ SoundButIssuer
    /\ HasDistinctAltIssuer
    /\ TheToken.payload.iss = alt_issuer(config)
    /\ last.v.kind = "ok"

\* the decode succeeded: the validation reached the audience check
ReachedAudience == Decoded /\ last.v.decodes[Len(last.v.decodes)] = "ok"

\* C10: a decoded token is accepted iff its aud is the client id, or a list
\* containing it, or its azp is the client id; otherwise the validation fails
\* with "Invalid audience" and returns neither claims nor a role result.
C10_AudienceOrAzp ==
    ReachedAudience =>
        IF AudienceNamesClient
        THEN last.v.kind = "ok" /\ last.v.payload = TheToken.payload
        ELSE /\ last.v.kind = "TokenError"
             /\ last.v.reason = "Invalid audience"
             /\ last.v.payload = NoPayload
             /\ last.v.has_role = FALSE

\* C10 witness: a token whose aud names another audience is accepted on its azp
C10_Witness ==
    /\ ReachedAudience
    /\ TheToken.payload.aud = Str("account")
    /\ TheToken.payload.azp = Str(config.client_id)
    /\ last.v.kind = "ok"

----------------------------------------------------------------------------
(* Properties of the gateway *)

\* C2: a request under /api/ reaches the downstream handler only if its method
\* is OPTIONS, its path is /api/health/, it carries an authenticated is_staff
\* session, or the validator accepted its Authorization header with the role;
\* claims are attached only in the last case, and are the validated ones.
C2_PassOnlyWhenAuthorized ==
    (last.op = "api" /\ StartsWith(last.path, ApiPrefix)) =>
        /\ last.passed =>
              \/ last.method = "OPTIONS"
              \/ last.path = HealthPath
              \/ last.staff
              \/ last.v.kind = "ok" /\ last.v.has_role
        /\ last.keycloak # NoPayload =>
              /\ last.passed
              /\ last.method # "OPTIONS" /\ last.path # HealthPath /\ ~last.staff
              /\ last.v.kind = "ok" /\ last.v.has_role
              /\ last.keycloak = last.v.payload
              /\ last.keycloak = last.header.token.payload

\* C2 witness: a token with the role passes and its claims are attached
C2_Witness ==
    /\ last.op = "api"
    /\ StartsWith(last.path, ApiPrefix)
    /\ last.passed
    /\ ~last.staff
    /\ last.v.kind = "ok" /\ last.v.has_role
    /\ last.keycloak = last.header.token.payload

\* C5 (as claimed): every failure of the validation of a token whose claims
\* have the expected JSON types is a TokenError, a failed JWKS fetch included,
\* and the middleware answers it with 401, never with an unhandled exception.
C5_EveryFailureIsTokenError ==
    ( /\ last.op = "api"
      /\ last.v.kind \notin { "not called", "ok" }
      /\ last.header.token.payload.realm_access.t # "other" ) =>
        /\ last.v.kind = "TokenError"
        /\ last.status = 401

----------------------------------------------------------------------------
(* Properties of the login flow *)

\* the step answers a callback
CallbackReturned == last.op # "callback" /\ last'.op = "callback"

\* C1: the callback calls login() only if, in that invocation, the provider
\* sent no error, code and state were present, the state was the one stored in
\* the session the request loaded, a verifier was stored there, the exchange
\* returned an access token, the validator accepted it with the role, the
\* provisioner returned a user and that user is_staff; in every other outcome
\* the answer is no redirect and the step logs nobody in: the browser's session
\* is anonymous afterwards or still that of the user it belonged to.
C1_SessionOnlyAfterAllChecks ==
    [][ CallbackReturned =>
          IF last'.login_called
          THEN /\ last'.q.error = ""
               /\ last'.q.code # "" /\ last'.q.state # 0
               /\ last'.q.state = last'.before.kc_admin_state
               /\ last'.before.kc_admin_verifier # 0
               /\ last'.xchg = "token"
               /\ last'.v.kind = "ok" /\ last'.v.has_role
               /\ last'.user # NoStr
               /\ users'[last'.user].exists /\ users'[last'.user].is_staff
               /\ session'.user = last'.user
               /\ last'.status = 302
          ELSE /\ last'.status # 302
               /\ session'.user \in { NoStr, session.user } ]_vars

\* C1 witness: a callback established a session
C1_Witness ==
    /\ last.op = "callback"
    /\ last.login_called
    /\ last.before.user = NoStr
    /\ session.user = <<"alice">>

\* C3 (as claimed): a callback presenting a state value that an earlier callback
\* consumed is rejected, and after a callback was rejected no callback calls
\* login() before another login() has generated a new state.
C3_ConsumedStateRejected ==
    last.op = "callback" =>
        /\ last.replay => last.status = 400 /\ ~last.login_called
        /\ last.after_reject => ~last.login_called

\* a path of this site: it starts with one "/" and not with "//"
SameOriginPath(p) == StartsWith(p, <<Slash>>) /\ ~StartsWith(p, <<Slash, Slash>>)

\* C6 (as claimed): the next value kept in the session is a same-origin relative
\* path, and so is the target of the redirect after a successful callback.
C6_NextIsSameOrigin ==
    /\ session.kc_admin_next # NoStr => SameOriginPath(session.kc_admin_next)
    /\ (last.op = "callback" /\ last.status = 302) => SameOriginPath(last.location)

----------------------------------------------------------------------------
(* Role extraction *)

\* the role is in the list of a container that is an object with a list of roles
RoleListed(container, role) ==
    container.t = "dict" /\ container.roles.t = "list" /\ role \in container.roles.v

RoleInPayload(payload, role) ==
    \/ RoleListed(payload.realm_access, role)
    \/ payload.resource_access.t = "dict" /\ RoleListed(payload.resource_access.client, role)

\* C11 (as claimed): for every shape of realm_access and resource_access,
\* _token_has_role returns a boolean, never raises, and returns true exactly
\* when the required role is in the realm role list or in the client's role list.
C11_RoleExtractionTotal ==
    last.op = "has_role" =>
        /\ last.result \in { "True", "False" }
        /\ last.result = "True" <=> RoleInPayload(last.payload, config.required_role)


----------------------------------------------------------------------------
(* Unknown signing key *)

\* the request reached the validator's key lookup with a kid
ApiLookedUp ==
    /\ last.op = "api"
    /\ last.v.kind # "not called"
    /\ extract_bearer_token(last.header) # NoToken
    /\ last.header.token.wellformed
    /\ last.header.token.kid # ""

\* the key sets were available: no fetch failed and the document has a key list
KeySetsAvailable == last.v.kind # "Exception" /\ last.v.reason # "Invalid JWKS"

\* the kid is in none of the key sets the provider publishes
UnknownKid(kid) ==
    /\ ~KidIn(ServedKeys(config, jwks_url(config)), kid)
    /\ ~KidIn(ServedKeys(config, alt_jwks_url(config)), kid)

\* C12: a token whose kid is in none of the available key sets is refused with
\* the TokenError "Signing key not found", and the request carrying it is
\* answered 401 with the detail "Unauthorized".
C12_UnknownKidIs401 ==
    (ApiLookedUp /\ KeySetsAvailable /\ UnknownKid(last.header.token.kid)) =>
        /\ last.v.kind = "TokenError"
        /\ last.v.reason = "Signing key not found"
        /\ ~last.passed
        /\ last.status = 401
        /\ last.detail = "Unauthorized"
        /\ last.error = "Signing key not found"
        /\ last.keycloak = NoPayload

\* an unknown kid was refused, on a forged and expired token as well
C12_Witness ==
    /\ ApiLookedUp /\ KeySetsAvailable /\ UnknownKid(last.header.token.kid)
    /\ last.header.token.signed = "forged"
    /\ last.status = 401


----------------------------------------------------------------------------
(* 401 against 403 *)

\* a request on a protected path that is not exempt: the middleware called the validator
Protected == last.op = "api" /\ last.v.kind # "not called"

\* the validator returned the claims with has_role = False
ValidWithoutRole == last.v.kind = "ok" /\ ~last.v.has_role

\* C13: on a protected path that is not exempt the answer is 401 exactly when
\* the validator raised TokenError and 403 exactly when it accepted the token
\* without the required role; a missing or invalid token is never answered 403,
\* and a token that lists the role nowhere is never answered 401 once its other
\* claims were accepted, and never passes.
C13_UnauthorizedVsForbidden ==
    Protected =>
        /\ last.status = 401 <=> last.v.kind = "TokenError"
        /\ last.status = 403 <=> ValidWithoutRole
        /\ last.status = 403 =>
              /\ extract_bearer_token(last.header) # NoToken
              /\ last.header.token.signed = "m1"
              /\ ~RoleInPayload(last.header.token.payload, config.required_role)
              /\ last.detail = "Forbidden" /\ last.error = "Missing required role"
        /\ last.status = 401 => last.detail = "Unauthorized" /\ last.error = last.v.reason
        /\ ( /\ extract_bearer_token(last.header) # NoToken
             /\ ~RoleInPayload(last.header.token.payload, config.required_role) ) =>
                /\ ~last.passed
                /\ last.keycloak = NoPayload
                /\ last.v.kind # "TokenError" => last.status # 401

\* a token accepted without the role was answered 403
C13_Witness ==
    /\ Protected /\ ValidWithoutRole
    /\ last.status = 403
    /\ last.header.token.payload.realm_access = Dict(List({"offline_access"}))


----------------------------------------------------------------------------
(* Bypass *)

\* the request just handled is exempt: OPTIONS, the health-check path, or an
\* authenticated is_staff session
ExemptAfter ==
    /\ last'.op = "api"
    /\ last'.method = "OPTIONS" \/ last'.path = HealthPath \/ last'.staff

\* C14: an OPTIONS request, a request to /api/health/ and a request with an
\* authenticated is_staff session pass without the validator being called:
\* the key cache is not touched (no JWKS fetch), auth_user is not touched (no
\* provisioning) and no claims are attached.
C14_BypassTouchesNothing ==
    [][ ExemptAfter =>
          /\ last'.passed /\ last'.status = 0
          /\ last'.v = NotValidated
          /\ last'.net = <<>>
          /\ last'.provisioned = "not called"
          /\ last'.keycloak = NoPayload
          /\ cache' = cache
          /\ users' = users ]_vars

\* a staff session passed on a protected path after an earlier request had
\* filled the key cache
C14_Witness ==
    /\ last.op = "api"
    /\ last.method = "GET" /\ last.path # HealthPath /\ StartsWith(last.path, ApiPrefix)
    /\ last.staff
    /\ last.passed
    /\ cache # EmptyCache


----------------------------------------------------------------------------
(* Provisioning on the API path *)

\* C15: on a protected path a token the validator accepted with the role
\* passes with its claims attached whatever the provisioner does, its raising
\* included, and a token the validator refused is rejected without the
\* provisioner being called.
C15_ProvisionerFailOpen ==
    Protected =>
        /\ (last.v.kind = "ok" /\ last.v.has_role) =>
              /\ last.passed
              /\ last.keycloak = last.header.token.payload
              /\ last.provisioned \in { "raised", "none", "user" }
        /\ last.v.kind = "TokenError" =>
              /\ ~last.passed
              /\ last.status = 401
              /\ last.provisioned = "not called"
        /\ last.provisioned = "raised" => last.v.kind = "ok" /\ last.v.has_role

\* the provisioner raised at its save, after it had inserted bob's row, and
\* the request passed with the claims attached
C15_Witness ==
    /\ Protected
    /\ last.provisioned = "raised"
    /\ last.passed
    /\ last.keycloak = last.header.token.payload
    /\ users[<<"bob">>].exists /\ users[<<"bob">>].last_login = -1


----------------------------------------------------------------------------
(* The login flow's session fields *)

\* the browser session holds none of kc_admin_state, nonce, verifier and next
LoginSessionCleared(sess) ==
    /\ sess.kc_admin_state = 0
    /\ sess.kc_admin_nonce = 0
    /\ sess.kc_admin_verifier = 0
    /\ sess.kc_admin_next = NoStr

\* C16 (as claimed): after a callback that consumed the stored state (it
\* passed the preconditions) and was answered 302, 400 or 403 the browser
\* session holds none of the fields state, nonce, verifier and next.
C16_LoginSessionCleared ==
    ( /\ last.op = "callback"
      /\ last.xchg # "not attempted"
      /\ last.status \in { 302, 400, 403 } ) => LoginSessionCleared(session)


----------------------------------------------------------------------------
(* Preconditions of the callback *)

\* the callback just handled failed a precondition: an error parameter, no
\* code, no state, a state other than the stored one, or no stored verifier
PreconditionFailed ==
    /\ last.op = "callback"
    /\ \/ last.q.error # ""
       \/ last.q.code = ""
       \/ last.q.state = 0
       \/ last.q.state # last.before.kc_admin_state
       \/ last.before.kc_admin_verifier = 0

\* C17: a callback that fails a precondition is answered 400, the token
\* exchange is not performed, the validator is not called, login() is not
\* called and the session is the one the request came with.
C17_PreconditionFailureIs400 ==
    PreconditionFailed =>
        /\ last.status = 400
        /\ last.body \in { "Keycloak error", "Missing code/state", "Invalid state",
                            "Missing PKCE verifier" }
        /\ last.xchg = "not attempted"
        /\ last.v = NotValidated
        /\ ~last.login_called
        /\ session = last.before

\* a callback presenting a state other than the stored one was answered 400
C17_Witness ==
    /\ PreconditionFailed
    /\ last.q.error = "" /\ last.q.code # ""
    /\ last.before.kc_admin_state # 0
    /\ last.q.state \notin { 0, last.before.kc_admin_state }
    /\ last.status = 400
    /\ last.body = "Invalid state"
    /\ session.user = NoStr


----------------------------------------------------------------------------
(* Missing role at the callback *)

\* the callback just handled exchanged the code for a token that the validator
\* accepted without the required role
NoRoleAfter ==
    /\ last'.op = "callback"
    /\ last'.xchg = "token"
    /\ last'.v.kind = "ok" /\ ~last'.v.has_role

\* C18: when the exchanged token is accepted without the required role the
\* callback answers 403, the browser session is flushed (nobody is logged in
\* afterwards, also if somebody was before), login() is not called and
\* auth_user is not touched.
C18_MissingRoleIs403 ==
    [][ NoRoleAfter =>
          /\ last'.status = 403
          /\ last'.location = NoStr
          /\ ~last'.login_called
          /\ session' = EmptySession
          /\ last'.user = NoStr
          /\ users' = users ]_vars

\* a browser logged in as carol came back with a token without the role
C18_Witness ==
    /\ last.op = "callback"
    /\ last.xchg = "token"
    /\ last.v.kind = "ok" /\ ~last.v.has_role
    /\ last.before.user = <<"carol">>
    /\ last.status = 403
    /\ session.user = NoStr


----------------------------------------------------------------------------
(* Two login flows in one browser session *)

\* the callback just handled presented the state of a flow that a later login
\* of the same session has overwritten
OverwrittenFlow ==
    /\ last.op = "callback"
    /\ last.q.state # 0
    /\ last.q.state < last.logins

\* C19: a login that starts a flow stores new state, nonce and verifier in
\* place of those of an earlier flow; a callback presenting the state of a
\* flow that was overwritten before the callback arrived is answered 400
\* without a session being established, so that of the flows started before a
\* callback only the latest one can complete.
C19_SecondLoginOverwrites ==
    /\ (last.op = "login" /\ last.started) =>
          /\ session.kc_admin_state = logins
          /\ session.kc_admin_nonce = logins
          /\ session.kc_admin_verifier = logins
    /\ OverwrittenFlow =>
          /\ last.status = 400
          /\ last.xchg = "not attempted"
          /\ ~last.login_called
          /\ session = last.before
    /\ (last.op = "callback" /\ last.login_called) => last.q.state = last.logins

\* two flows were started before any callback passed the state check, and the
\* callback of the first one was refused for its state
C19_Witness ==
    /\ OverwrittenFlow
    /\ last.logins = 2 /\ last.q.state = 1
    /\ last.before.kc_admin_state = 2
    /\ last.q.error = "" /\ last.q.code # ""
    /\ consumed = {}
    /\ last.status = 400 /\ last.body = "Invalid state"


----------------------------------------------------------------------------
(* Identity at the time of the access log *)

\* the identities the request just served can resolve to: its session's
\* username, the preferred_username of the claims attached to it, its
\* fallback header
OwnIdentities ==
    { <<>>, StrOrEmpty(last.user), StrippedStr(last.xhdr) }
    \cup { StrippedStr(k.preferred_username) : k \in { last.keycloak } \ { NoPayload } }

\* C20 (as claimed): when the access log of a request is written the identity
\* is one the request itself resolves to, or empty, and never the one an
\* earlier request left in the worker thread, also when the request was
\* answered 401 or 403 by KeycloakRequiredMiddleware.
C20_IdentityResetPerRequest ==
    last.op = "logged" => log_username \in OwnIdentities


----------------------------------------------------------------------------
(* Resolution order of the identity *)

\* the three sources of the request just resolved, <<>> where a source has
\* no non-blank value
SessionName == IF last.user # NoStr THEN last.user ELSE <<>>
TokenName ==
    IF last.keycloak # NoPayload /\ last.keycloak.preferred_username # NoStr
    THEN Strip(last.keycloak.preferred_username) ELSE <<>>
HeaderName == IF last.xhdr # NoStr THEN Strip(last.xhdr) ELSE <<>>

\* C21: the identity stored for a request is the first non-empty of the
\* session's username, the trimmed preferred_username of the attached claims
\* and the trimmed fallback header, and empty if all three are; the header is
\* used only when the two other sources are empty.
C21_ResolutionOrder ==
    last.op = "resolved" =>
        /\ log_username = last.username
        /\ SessionName # <<>> => log_username = SessionName
        /\ (SessionName = <<>> /\ TokenName # <<>>) => log_username = TokenName
        /\ (SessionName = <<>> /\ TokenName = <<>>) => log_username = HeaderName
        /\ (log_username = HeaderName /\ HeaderName # <<>>) =>
              \/ SessionName = <<>> /\ TokenName = <<>>
              \/ HeaderName \in { SessionName, TokenName }

\* a request with padded claims and a header was given the claims' name
C21_Witness ==
    /\ last.op = "resolved"
    /\ last.user = NoStr
    /\ last.keycloak # NoPayload
    /\ last.keycloak.preferred_username = <<Space, "bob", Space>>
    /\ last.xhdr = <<"mallory">>
    /\ log_username = <<"bob">>


----------------------------------------------------------------------------
(* The two identity sources that depend on KeycloakRequiredMiddleware *)

\* C22 (as claimed): in one pipeline a request without a session that was
\* accepted with a bearer token is logged with the trimmed preferred_username
\* of the token, and a request answered 401 that carries the fallback header
\* is logged with the trimmed value of that header.
C22_BothSourcesWork ==
    last.op = "logged" =>
        /\ ( /\ last.passed
             /\ last.user = NoStr
             /\ last.keycloak # NoPayload
             /\ StrippedStr(last.keycloak.preferred_username) # <<>> ) =>
                log_username = StrippedStr(last.keycloak.preferred_username)
        /\ (last.status = 401 /\ StrippedStr(last.xhdr) # <<>>) =>
                log_username = StrippedStr(last.xhdr)


----------------------------------------------------------------------------
(* The user provisioner *)

\* C23 (as claimed): a second call with the claims of the call before it
\* creates no further record and leaves the stored record equal to its state
\* after the first call.
C23_UpsertIdempotent ==
    (last.op = "upsert" /\ last.repeat /\ last.user # NoStr) =>
        /\ last.entry[last.user].exists
        /\ users[last.user] = last.entry[last.user]

\* C23 (amended): a second call with the claims of the call before it, no
\* other call running meanwhile, creates no further record and leaves every
\* field of every record equal to its state after the first call, except
\* last_login of the user's record, which becomes the time of the second call.
C23_UpsertIdempotentButLastLogin ==
    (last.op = "upsert" /\ last.repeat) =>
        /\ \A u \in Usernames :
              /\ users[u].exists = last.entry[u].exists
              /\ [ users[u] EXCEPT !.last_login = last.entry[u].last_login ] = last.entry[u]
              /\ u # last.user => users[u] = last.entry[u]
        /\ last.user # NoStr =>
              /\ last.entry[last.user].exists
              /\ users[last.user].last_login \in last.t0..now

\* bob's record, created with e-mail and name by the first call, was stamped
\* again by a second call at a later time
C23_Witness ==
    /\ last.op = "upsert" /\ last.repeat
    /\ last.user = <<"bob">>
    /\ last.entry[<<"bob">>].exists
    /\ last.entry[<<"bob">>].email = <<"bob@example.org">>
    /\ last.entry[<<"bob">>].last_name = <<"B">>
    /\ ~last.entry[<<"bob">>].usable_password
    /\ last.entry[<<"bob">>].last_login < last.t0
    /\ users[<<"bob">>] = [ last.entry[<<"bob">>] EXCEPT !.last_login = now ]

\* the claims the username is taken from, in the order they are tried
KeyClaims(p) == << p.preferred_username, p.username, p.email, p.sub >>

\* v is a string with a character that is not whitespace
Usable(v) == v # NoStr /\ \E i \in 1..Len(v) : v[i] # Space

\* r is v without its leading and trailing whitespace
TrimOf(r, v) ==
    /\ Len(r) > 0 /\ r[1] # Space /\ r[Len(r)] # Space
    /\ \E a \in 0..Len(v) :
          /\ a + Len(r) <= Len(v)
          /\ SubSeq(v, a + 1, a + Len(r)) = r
          /\ \A i \in (1..a) \cup ((a + Len(r) + 1)..Len(v)) : v[i] = Space

\* the username the claims p give: the trimmed value of the first usable one
\* of the key claims
KeyOf(u, p) ==
    LET vals == KeyClaims(p)
    IN  \E i \in 1..4 : /\ Usable(vals[i])
                         /\ \A j \in 1..(i - 1) : ~Usable(vals[j])
                         /\ TrimOf(u, vals[i])

\* the step ends a call of upsert_user_from_keycloak
UpsertReturned == last.op # "upsert" /\ last'.op = "upsert"

\* C24: the record is created or looked up under the trimmed value of the first
\* of preferred_username, username, email, sub that is a non-blank string: a
\* call returns the record of that name, and a statement of a call writes no
\* record of another name; when none of them is usable the call returns no
\* user and writes no record.
C24_UpsertKey ==
    [][ /\ UpsertReturned =>
              IF \E i \in 1..4 : Usable(KeyClaims(last'.payload)[i])
              THEN ~last'.raised =>
                     /\ KeyOf(last'.user, last'.payload)
                     /\ users'[last'.user].exists
              ELSE last'.user = NoStr /\ ~last'.raised /\ users' = users
        /\ \A u \in Usernames :
              users'[u] # users[u] =>
                  \E i \in Threads : /\ threads'[i] # threads[i]
                                      /\ threads[i].call.op = "upsert"
                                      /\ KeyOf(u, threads[i].call.payload) ]_vars

\* a call whose preferred_username is blank and whose username and email are
\* both usable was keyed by the username claim and stamped carol's record
C24_Witness ==
    /\ last.op = "upsert" /\ ~last.raised
    /\ last.payload.preferred_username = <<Space>>
    /\ last.payload.email = <<"bob@example.org">>
    /\ last.user = <<"carol">>
    /\ users[<<"carol">>].last_login = now

\* C25: the provisioner grants no privilege: a record it creates is neither
\* staff nor superuser, and the flags of an existing record are never changed.
C25_NoPrivilegeGranted ==
    [][ \A u \in Usernames :
          IF users[u].exists
          THEN /\ users'[u].is_staff = users[u].is_staff
               /\ users'[u].is_superuser = users[u].is_superuser
          ELSE ~users'[u].is_staff /\ ~users'[u].is_superuser ]_vars

\* bob's record was just created and alice, made staff in Django Admin, has
\* been seen by the provisioner
C25_Witness ==
    /\ last.op = "upsert" /\ last.user = <<"bob">>
    /\ ~last.entry[<<"bob">>].exists /\ users[<<"bob">>].exists
    /\ ~users[<<"bob">>].is_staff
    /\ users[<<"alice">>].last_login >= 0 /\ users[<<"alice">>].is_staff

\* the check at which a validation ended: 1 Authorization header, 2 token
\* header, 3 kid, 4 key lookup, 5 key build, 6 signature, time and issuer,
\* 7 audience, 8 role extraction (the last step, also when it returns)
FailedCheck(v) ==
    CASE v.kind = "TokenError" /\ v.reason = "Missing bearer token" -> 1
      [] v.kind = "TokenError" /\ v.reason = "Invalid token header" -> 2
      [] v.kind = "TokenError" /\ v.reason = "Missing kid" -> 3
      [] v.kind = "TokenError" /\ v.reason \in { "Signing key not found", "Invalid JWKS" } -> 4
      [] v.kind = "Exception" /\ v.reason = "RequestException" -> 4
      [] v.kind = "TokenError" /\ v.reason = "Failed to build public key" -> 5
      [] v.kind = "TokenError" /\ v.reason = "Invalid audience" -> 7
      [] v.kind = "TokenError" -> 6
      [] OTHER -> 8

\* the checks as conditions on the presented header and token
BearerFormat(h) == Len(h.words) = 2 /\ h.words[1] \in { "Bearer", "bearer", "BEARER" }
PublishedKeys == { PrimaryKeys[i] : i \in 1..Len(PrimaryKeys) } \cup { AltKeys[i] : i \in 1..Len(AltKeys) }
KeyPublished(tok) == \E k \in PublishedKeys : k.kid = tok.kid
KeyBuilds(tok) == \A k \in PublishedKeys : k.kid = tok.kid => k.n # "malformed"
Verifies(cfg, tok, t) ==
    /\ \E k \in PublishedKeys : k.kid = tok.kid /\ k.n = tok.signed
    /\ \A e \in tok.payload.exp : e > t - Leeway
    /\ tok.payload.iss \in { issuer(cfg), alt_issuer(cfg) }
AudienceAccepts(cfg, tok) ==
    \/ tok.payload.aud = Str(cfg.client_id)
    \/ tok.payload.aud.t = "list" /\ cfg.client_id \in tok.payload.aud.v
    \/ tok.payload.azp = Str(cfg.client_id)

\* a step that ends a direct validation
ValidateReturned == last.op # "validate" /\ last'.op = "validate"

\* C26: the validator checks the Authorization header, the token header, the
\* kid, the key lookup, the key build, signature/time/issuer and the audience
\* in this order and ends at the first check that fails; a validation that ends
\* at one of the first three requests no key set and leaves the cache as it was.
C26_CheckOrder ==
    [][ ValidateReturned =>
          LET h == last'.header
              tok == h.token
              v == last'.v
              c == FailedCheck(v)
          IN  /\ (c = 1) = ~BearerFormat(h)
              /\ c > 1 => ((c = 2) = ~tok.wellformed)
              /\ c > 2 => ((c = 3) = (tok.kid = ""))
              /\ c > 4 => KeyPublished(tok)
              /\ (c = 4 /\ v.reason = "Signing key not found") =>
                     \A i \in 1..Len(cache.jwks.keys) : cache.jwks.keys[i].kid # tok.kid
              /\ (c = 4 /\ v.reason = "Invalid JWKS") => cache.jwks.shape # "ok"
              /\ (c = 4 /\ v.reason = "RequestException") =>
                     last'.net # <<>> /\ last'.net[Len(last'.net)] = "fail"
              /\ c > 4 => ((c = 5) = ~KeyBuilds(tok))
              /\ c > 5 => ((c = 6) = ~Verifies(config, tok, now))
              /\ c > 6 => ((c = 7) = ~AudienceAccepts(config, tok))
              /\ c <= 3 =>
                     /\ v.fetched = <<>> /\ last'.net = <<>>
                     /\ threads[last'.thread].pc \in { "start", "out" }
                     /\ cache' = cache ]_vars

\* a Bearer token without kid that is also forged, expired and issued for
\* another client was refused for its kid while the cache held a key set
C26_Witness ==
    /\ last.op = "validate"
    /\ last.v.reason = "Missing kid"
    /\ last.header.token.signed = "forged"
    /\ last.header.token.payload.azp = Str("other-client")
    /\ last.header.token.payload.exp = {now - Leeway}
    /\ last.net = <<>>
    /\ cache.jwks # NoJwks

\* the threads that missed the cache and have not yet finished their fetch
InFlight == { i \in Threads : threads[i].pc \in { "miss", "stored" } }

\* C27: concurrent misses are collapsed: at no time are two threads inside
\* JwksCache.get each performing its own network fetch of the key set.
C27_SingleInFlightFetch == Cardinality(InFlight) <= 1

\* C28: get(url) returns a key set fetched from that url, never a document
\* that was fetched from a different url.
C28_DocumentOfRequestedUrl ==
    (last.op = "get" /\ ~last.g.raised) => last.g.doc.src = last.url

\* C30: a get whose fetch fails leaves jwks and fetched_at as they were, so the
\* cache is still not fresh and the next get fetches again; it raises and
\* returns no key set (not the expired one either).
C30_FailedFetchKeepsCache ==
    [][ /\ (threads[1].pc = "miss" /\ threads'[1].pc = "return") =>
              /\ threads'[1].raised
              /\ cache' = cache
              /\ ~CacheFresh(cache', threads'[1].t)
        /\ (GetReturned /\ last'.net = "fail") =>
              /\ last'.g.raised
              /\ last'.g.doc = NoJwks
              /\ last'.g.fetched = << last'.url >>
              /\ cache' = cache ]_vars

\* the fetch that should have replaced an expired key set failed
C30_Witness ==
    /\ last.op = "get" /\ last.net = "fail"
    /\ last.g.raised
    /\ cache.jwks.shape = "ok"
    /\ last.t - cache.fetched_at >= ttl_seconds

\* C29: a successful callback redirects to the next path supplied to the login()
\* that generated the state it consumed, or to /admin/ when that login()
\* supplied none; the next path of an earlier flow is never used. (Stated for a
\* browser session nobody is logged in to, where login() keeps the session data.)
C29_RedirectOfConsumedFlow ==
    (last.op = "callback" /\ last.status = 302 /\ last.before.user = NoStr) =>
        last.location = IF NextAccepted(last.supplied) THEN last.supplied ELSE AdminPath

====
